---- MODULE Spec2Model ----
(***************************************************************************)
(* Model of the brand-check service: the SearchService (index rebuild,     *)
(* hybrid search, configuration), the DocumentService (load, file watch,   *)
(* update) and the server wiring between them.                             *)
(*                                                                         *)
(* Strings are sequences of one-character strings.  Scores are fixed-point *)
(* numbers in thousandths (ScoreScale), rounded down.  Time is in          *)
(* milliseconds.                                                           *)
(***************************************************************************)
EXTENDS Integers, Sequences, FiniteSets, TLC

\* ------------------------------------------------------------------------
\* Bounds of the model
\* ------------------------------------------------------------------------
MaxUpdates == 2       \* updateSections() calls per run
MaxSearches == 1      \* search() calls per run
MaxConfigUpdates == 1 \* updateConfig() calls per run
MaxWrites == 2        \* writes made to the watched file from outside, per run
MaxPuts == 1          \* PUT /api/doc requests per run
MaxTime == 300        \* the clock stops advancing here (ms)

\* ------------------------------------------------------------------------
\* Program constants
\* ------------------------------------------------------------------------
DefaultMaxResults == 10
DefaultMinScore == 100    \* 0.1 in thousandths
DebounceMs == 100
SemanticWeight == 6       \* 0.6 in tenths
KeywordWeight == 4        \* 0.4 in tenths
KeywordNorm == 5
MinTermLen == 2           \* terms are kept when their length is > 2
ScoreScale == 1000        \* scores are held in thousandths
Dim == 4                  \* dimension of every embedding vector

\* ------------------------------------------------------------------------
\* Strings
\* ------------------------------------------------------------------------
Min(a, b) == IF a <= b THEN a ELSE b
Max(a, b) == IF a >= b THEN a ELSE b

LowerOf(c) ==
    CASE c = "B" -> "b"
      [] c = "L" -> "l"
      [] c = "C" -> "c"
      [] c = "F" -> "f"
      [] OTHER -> c

ToLowerCase(s) == [i \in 1..Len(s) |-> LowerOf(s[i])]

IsSpace(c) == c \in {" ", "\t", "\n"}
IsWordChar(c) == ~IsSpace(c) /\ c \notin {"#", "-", ".", ",", "(", ")"}

\* String.prototype.split(/\s+/): a run of whitespace separates two pieces,
\* so leading or trailing whitespace yields an empty first or last piece.
RECURSIVE SplitFrom(_, _, _, _)
SplitFrom(s, i, cur, acc) ==
    IF i > Len(s) THEN Append(acc, cur)
    ELSE IF IsSpace(s[i])
         THEN IF i > 1 /\ IsSpace(s[i - 1])
              THEN SplitFrom(s, i + 1, cur, acc)
              ELSE SplitFrom(s, i + 1, <<>>, Append(acc, cur))
         ELSE SplitFrom(s, i + 1, Append(cur, s[i]), acc)

SplitWhitespace(s) == SplitFrom(s, 1, <<>>, <<>>)

LongEnough(t) == Len(t) > MinTermLen

\* query.toLowerCase().split(/\s+/).filter(term => term.length > 2)
QueryTerms(query) == SelectSeq(SplitWhitespace(ToLowerCase(query)), LongEnough)

\* (text.match(new RegExp(term, 'g')) || []).length for a term without
\* regular-expression metacharacters: non-overlapping occurrences, left to
\* right.
\* The query terms are used as regular-expression patterns (new
\* RegExp(term, ...)).  Of the pattern syntax two things are kept: '.' stands
\* for any character but a line break, and a pattern whose parentheses do not
\* pair up is rejected with a SyntaxError.  Every other character stands for
\* itself; patterns with groups, classes or quantifiers are not among the
\* terms tried.
CountOf(c, term) == Cardinality({k \in 1..Len(term) : term[k] = c})
InvalidPattern(term) == CountOf("(", term) # CountOf(")", term)
HasInvalidPattern(terms) == \E k \in 1..Len(terms) : InvalidPattern(terms[k])

\* The pattern matches the piece of text (of the pattern's length)
PatternMatches(term, piece) ==
    \A k \in 1..Len(term) :
        IF term[k] = "." THEN piece[k] # "\n" ELSE piece[k] = term[k]

RECURSIVE CountFrom(_, _, _)
CountFrom(text, term, i) ==
    IF i + Len(term) - 1 > Len(text) THEN 0
    ELSE IF PatternMatches(term, SubSeq(text, i, i + Len(term) - 1))
         THEN 1 + CountFrom(text, term, i + Len(term))
         ELSE CountFrom(text, term, i + 1)

CountMatches(text, term) == CountFrom(text, term, 1)

\* [...new Set(xs)]: the distinct elements in order of first occurrence.
RECURSIVE Dedup(_)
Dedup(xs) ==
    IF xs = <<>> THEN <<>>
    ELSE LET front == Dedup(SubSeq(xs, 1, Len(xs) - 1))
             last == xs[Len(xs)]
         IN IF \E k \in 1..Len(front) : front[k] = last
            THEN front ELSE Append(front, last)

AtBoundary(text, i) ==
    \* \b between positions i-1 and i of text
    LET before == i > 1 /\ IsWordChar(text[i - 1])
        after == i <= Len(text) /\ IsWordChar(text[i])
    IN before # after

\* content.match(new RegExp(`\\b${term}\\b`, 'gi')): the matched pieces of
\* content, as written in content.
RECURSIVE WordMatchesFrom(_, _, _)
WordMatchesFrom(content, term, i) ==
    IF i + Len(term) - 1 > Len(content) THEN <<>>
    ELSE LET piece == SubSeq(content, i, i + Len(term) - 1)
         IN IF /\ PatternMatches(term, ToLowerCase(piece))
               /\ AtBoundary(content, i)
               /\ AtBoundary(content, i + Len(term))
            THEN <<piece>> \o WordMatchesFrom(content, term, i + Len(term))
            ELSE WordMatchesFrom(content, term, i + 1)

RECURSIVE MatchesOfTerms(_, _)
MatchesOfTerms(terms, content) ==
    IF terms = <<>> THEN <<>>
    ELSE WordMatchesFrom(content, Head(terms), 1)
             \o MatchesOfTerms(Tail(terms), content)

findMatches(query, content) == Dedup(MatchesOfTerms(QueryTerms(query), content))

\* ------------------------------------------------------------------------
\* EmbeddingService (services/embeddingService): a deterministic
\* text-to-vector mapping.  Tokens are hashed into Dim term-frequency
\* counters; the L2 normalisation is a positive scaling, which the cosine
\* below cancels, so the vector is kept as its integer direction.  A text
\* without tokens embeds to the zero vector.
\* ------------------------------------------------------------------------
Alphabet == <<"a", "b", "c", "d", "e", "f", "g", "h", "i", "j", "k", "l", "m",
              "n", "o", "p", "q", "r", "s", "t", "u", "v", "w", "x", "y", "z">>

Code(c) == IF \E i \in 1..Len(Alphabet) : Alphabet[i] = c
           THEN CHOOSE i \in 1..Len(Alphabet) : Alphabet[i] = c
           ELSE 0

RECURSIVE CodeSum(_)
CodeSum(token) == IF token = <<>> THEN 0 ELSE Code(Head(token)) + CodeSum(Tail(token))

HashToken(token) == (CodeSum(token) % Dim) + 1

\* maximal runs of word characters of the lower-cased text
RECURSIVE TokensFrom(_, _, _, _)
TokensFrom(s, i, cur, acc) ==
    IF i > Len(s) THEN (IF cur = <<>> THEN acc ELSE Append(acc, cur))
    ELSE IF IsWordChar(s[i])
         THEN TokensFrom(s, i + 1, Append(cur, s[i]), acc)
         ELSE TokensFrom(s, i + 1, <<>>, IF cur = <<>> THEN acc ELSE Append(acc, cur))

Tokenize(text) == TokensFrom(ToLowerCase(text), 1, <<>>, <<>>)

generateEmbedding(text) ==
    LET tokens == Tokenize(text)
    IN [k \in 1..Dim |-> Cardinality({j \in 1..Len(tokens) : HashToken(tokens[j]) = k})]

\* ------------------------------------------------------------------------
\* SearchService: pure parts
\* ------------------------------------------------------------------------
RECURSIVE Dot(_, _)
Dot(a, b) == IF a = <<>> THEN 0 ELSE Head(a) * Head(b) + Dot(Tail(a), Tail(b))

ISqrt(x) == CHOOSE r \in 0..(ScoreScale + 1) : r * r <= x /\ (r + 1) * (r + 1) > x

\* cosineSimilarity for vectors of equal length, in thousandths, rounded down
cosineSimilarity(a, b) ==
    LET dotProduct == Dot(a, b)
        normA == Dot(a, a)
        normB == Dot(b, b)
    IN IF normA * normB = 0 THEN 0
       ELSE ISqrt((ScoreScale * ScoreScale * dotProduct * dotProduct) \div (normA * normB))

\* Mutant of Slice: the end index is taken inclusive.
SliceInclusive(xs, n) ==
    IF n >= 0 THEN SubSeq(xs, 1, IF n + 1 <= Len(xs) THEN n + 1 ELSE Len(xs))
    ELSE SubSeq(xs, 1, IF Len(xs) + n + 1 >= 0 THEN Len(xs) + n + 1 ELSE 0)

\* Array.prototype.slice(0, n)
Slice(xs, n) ==
    IF n >= 0 THEN SubSeq(xs, 1, Min(n, Len(xs)))
    ELSE SubSeq(xs, 1, Max(Len(xs) + n, 0))

\* xs.sort((a, b) => b.score - a.score): stable, descending by score
\* Mutant of InsertByScore: the comparison the other way round, an ascending
\* sort.
RECURSIVE InsertByScoreAscending(_, _)
InsertByScoreAscending(sorted, r) ==
    IF sorted = <<>> THEN <<r>>
    ELSE IF Head(sorted).score <= r.score
         THEN <<Head(sorted)>> \o InsertByScoreAscending(Tail(sorted), r)
         ELSE <<r>> \o sorted

RECURSIVE InsertByScore(_, _)
InsertByScore(sorted, r) ==
    IF sorted = <<>> THEN <<r>>
    ELSE IF Head(sorted).score >= r.score
         THEN <<Head(sorted)>> \o InsertByScore(Tail(sorted), r)
         ELSE <<r>> \o sorted

RECURSIVE SortByScoreFrom(_, _)
SortByScoreFrom(xs, acc) ==
    IF xs = <<>> THEN acc ELSE SortByScoreFrom(Tail(xs), InsertByScore(acc, Head(xs)))

SortByScore(xs) == SortByScoreFrom(xs, <<>>)

\* const limit = maxResults || this.config.maxResults; 0 stands for an
\* absent (undefined) argument as well as for a literal 0: both are falsy.
Limit(maxResults, cfg) == IF maxResults = 0 THEN cfg.maxResults ELSE maxResults

\* Mutant of SemanticScan: every section is a candidate, whatever its score.
RECURSIVE SemanticScanUnfiltered(_, _, _, _)
SemanticScanUnfiltered(query, queryEmbedding, secs, minScore) ==
    IF secs = <<>> THEN <<>>
    ELSE <<[section |-> Head(secs),
            score |-> cosineSimilarity(queryEmbedding, Head(secs).embedding),
            matches |-> findMatches(query, Head(secs).content)]>>
         \o SemanticScanUnfiltered(query, queryEmbedding, Tail(secs), minScore)

SemanticHit(query, queryEmbedding, section) ==
    [section |-> section,
     score |-> cosineSimilarity(queryEmbedding, section.embedding),
     matches |-> findMatches(query, section.content)]

RECURSIVE SemanticScan(_, _, _, _)
SemanticScan(query, queryEmbedding, secs, minScore) ==
    IF secs = <<>> THEN <<>>
    ELSE LET hit == SemanticHit(query, queryEmbedding, Head(secs))
             rest == SemanticScan(query, queryEmbedding, Tail(secs), minScore)
         IN IF hit.score >= minScore THEN <<hit>> \o rest ELSE rest

\* semanticSearch after its await: the loop over this.sections, the sort and
\* the slice.  A dimension mismatch throws inside the try block, and so does
\* findMatches for a term that is no valid pattern, once a section has
\* reached minScore; the catch returns [].
semanticSearch(query, maxResults, secs, minScore) ==
    LET queryEmbedding == generateEmbedding(query)
    IN IF \/ \E i \in 1..Len(secs) : Len(secs[i].embedding) # Len(queryEmbedding)
          \/ HasInvalidPattern(QueryTerms(query))
       THEN <<>>
       ELSE Slice(SortByScore(SemanticScan(query, queryEmbedding, secs, minScore)),
                  maxResults)

RECURSIVE RawKeywordScore(_, _)
RawKeywordScore(terms, section) ==
    IF terms = <<>> THEN 0
    ELSE LET titleMatches == CountMatches(ToLowerCase(section.title), Head(terms))
             contentMatches == CountMatches(ToLowerCase(section.content), Head(terms))
         IN titleMatches * 3 + contentMatches + RawKeywordScore(Tail(terms), section)

RECURSIVE KeywordScan(_, _, _)
KeywordScan(query, terms, secs) ==
    IF secs = <<>> THEN <<>>
    ELSE LET score == RawKeywordScore(terms, Head(secs))
             rest == KeywordScan(query, terms, Tail(secs))
         IN IF score > 0
            THEN <<[section |-> Head(secs),
                    score |-> Min((score * ScoreScale) \div (Len(terms) * KeywordNorm),
                                  ScoreScale),
                    matches |-> findMatches(query, Head(secs).content)]>> \o rest
            ELSE rest

keywordSearch(query, maxResults, secs) ==
    Slice(SortByScore(KeywordScan(query, QueryTerms(query), secs)), maxResults)

\* The Map of mergeResults, as the sequence of its values in insertion order.
IndexOfId(m, id) ==
    IF \E k \in 1..Len(m) : m[k].section.id = id
    THEN CHOOSE k \in 1..Len(m) : m[k].section.id = id
    ELSE 0

MapSet(m, r) ==
    LET k == IndexOfId(m, r.section.id)
    IN IF k = 0 THEN Append(m, r) ELSE [m EXCEPT ![k] = r]

RECURSIVE AddSemantic(_, _)
AddSemantic(m, semanticResults) ==
    IF semanticResults = <<>> THEN m
    ELSE AddSemantic(MapSet(m, Head(semanticResults)), Tail(semanticResults))

RECURSIVE MergeKeyword(_, _)
MergeKeyword(m, keywordResults) ==
    IF keywordResults = <<>> THEN m
    ELSE LET r == Head(keywordResults)
             k == IndexOfId(m, r.section.id)
             next == IF k = 0 THEN Append(m, r)
                     ELSE [m EXCEPT
                             ![k].score = (m[k].score * SemanticWeight
                                           + r.score * KeywordWeight)
                                          \div (SemanticWeight + KeywordWeight),
                             ![k].matches = Dedup(m[k].matches \o r.matches)]
         IN MergeKeyword(next, Tail(keywordResults))

mergeResults(semanticResults, keywordResults, maxResults) ==
    Slice(SortByScore(MergeKeyword(AddSemantic(<<>>, semanticResults), keywordResults)),
          maxResults)

\* The end of search(): sort, slice and build the response (searchTime, a
\* wall-clock difference, is left out).
Respond(query, results, limit) ==
    LET final == Slice(SortByScore(results), limit)
    IN [query |-> query, results |-> final, totalResults |-> Len(final)]

\* ------------------------------------------------------------------------
\* utils/slugify and utils/markdown extractSections
\* ------------------------------------------------------------------------
\* slugify: lower-case, drop what is not a word character, whitespace or a
\* hyphen, then turn each run of whitespace and hyphens into one hyphen.
IsSlugSep(c) == IsSpace(c) \/ c = "-"

RECURSIVE SlugFrom(_, _, _)
SlugFrom(s, i, acc) ==
    IF i > Len(s) THEN acc
    ELSE IF IsSlugSep(s[i])
         THEN IF i > 1 /\ IsSlugSep(s[i - 1])
              THEN SlugFrom(s, i + 1, acc)
              ELSE SlugFrom(s, i + 1, Append(acc, "-"))
         ELSE SlugFrom(s, i + 1, Append(acc, s[i]))

KeepsInSlug(c) == IsWordChar(c) \/ IsSlugSep(c)

slugify(title) == SlugFrom(SelectSeq(ToLowerCase(title), KeepsInSlug), 1, <<>>)

RECURSIVE TrimStart(_)
TrimStart(s) == IF s # <<>> /\ IsSpace(Head(s)) THEN TrimStart(Tail(s)) ELSE s

RECURSIVE TrimEnd(_)
TrimEnd(s) ==
    IF s # <<>> /\ IsSpace(s[Len(s)]) THEN TrimEnd(SubSeq(s, 1, Len(s) - 1)) ELSE s

Trim(s) == TrimEnd(TrimStart(s))

\* content.split('\n')
RECURSIVE SplitLinesFrom(_, _, _, _)
SplitLinesFrom(s, i, cur, acc) ==
    IF i > Len(s) THEN Append(acc, cur)
    ELSE IF s[i] = "\n"
         THEN SplitLinesFrom(s, i + 1, <<>>, Append(acc, cur))
         ELSE SplitLinesFrom(s, i + 1, Append(cur, s[i]), acc)

SplitLines(content) == SplitLinesFrom(content, 1, <<>>, <<>>)

\* lines.join('\n')
RECURSIVE JoinLines(_)
JoinLines(lines) ==
    IF lines = <<>> THEN <<>>
    ELSE IF Len(lines) = 1 THEN lines[1]
    ELSE lines[1] \o <<"\n">> \o JoinLines(Tail(lines))

RECURSIVE LeadingCount(_, _)
LeadingCount(s, c) ==
    IF s # <<>> /\ Head(s) = c THEN 1 + LeadingCount(Tail(s), c) ELSE 0

RECURSIVE LeadingSpaces(_)
LeadingSpaces(s) ==
    IF s # <<>> /\ IsSpace(Head(s)) THEN 1 + LeadingSpaces(Tail(s)) ELSE 0

\* line.match(/^(#{1,6})\s+(.+)$/): the level and the trimmed title, or
\* level 0 when the line is no heading.
HeadingMatch(line) ==
    LET hashes == LeadingCount(line, "#")
        rest == SubSeq(line, hashes + 1, Len(line))
        spaces == LeadingSpaces(rest)
        text == SubSeq(rest, spaces + 1, Len(rest))
    IN IF hashes >= 1 /\ hashes <= 6 /\ spaces >= 1 /\ (text # <<>> \/ spaces >= 2)
       THEN [level |-> hashes, title |-> Trim(text)]
       ELSE [level |-> 0, title |-> <<>>]

SectionId(n) == <<"section", n>>

\* The loop of extractSections from line i on (lines are numbered from 0 in
\* the code and from 1 here): cur is the open section (level 0: none), body
\* its lines so far, acc the closed sections.
RECURSIVE ExtractFrom(_, _, _, _, _)
ExtractFrom(lines, i, cur, body, acc) ==
    LET closed == IF cur.level = 0 THEN acc
                  ELSE Append(acc, [cur EXCEPT !.content = Trim(JoinLines(body)),
                                               !.endLine = i - 2])
    IN IF i > Len(lines) THEN
           (IF cur.level = 0 THEN acc
            ELSE Append(acc, [cur EXCEPT !.content = Trim(JoinLines(body)),
                                         !.endLine = Len(lines) - 1]))
       ELSE LET m == HeadingMatch(lines[i])
            IN IF m.level > 0
               THEN ExtractFrom(lines, i + 1,
                                [id |-> SectionId(Len(closed)),
                                 slug |-> slugify(m.title),
                                 title |-> m.title,
                                 level |-> m.level,
                                 startLine |-> i - 1,
                                 endLine |-> 0,
                                 content |-> <<>>],
                                <<>>, closed)
               ELSE IF cur.level > 0
                    THEN ExtractFrom(lines, i + 1, cur, Append(body, lines[i]), acc)
                    ELSE ExtractFrom(lines, i + 1, cur, body, acc)

NoSection == [id |-> SectionId(0), slug |-> <<>>, title |-> <<>>, level |-> 0,
              startLine |-> 0, endLine |-> 0, content |-> <<>>]

extractSections(content) == ExtractFrom(SplitLines(content), 1, NoSection, <<>>, <<>>)

\* ------------------------------------------------------------------------
\* Inputs: the contents the watched file takes, and the queries asked
\* ------------------------------------------------------------------------
FileContents == <<
    <<"#", " ", "B", "r", "a", "n", "d", "\n", "b", "l", "u", "e", " ", "b", "r", "a", "n", "d">>,
    <<"#", " ", "L", "o", "g", "o", "\n", "l", "o", "g", "o", " ", "a", "r", "t", "\n", "#", "#", " ", "F", "o", "n", "t", "s", "\n", "b", "i", "g", " ", "f", "o", "n", "t">>,
    <<"#", " ", "B", "r", "a", "n", "d", "\n", "L", "o", "g", "o", "\n", "#", " ", "F", "o", "n", "t", "s", "\n", "b", "r", "a", "n", "d", " ", "f", "o", "n", "t", " ", "l", "o", "g", "o", "\n", "#", "#", " ", "L", "o", "g", "o", "\n", "a", "r", "t">>,
    <<"#", " ", "L", "o", "g", "o", "s", "\n", "l", "o", "g", "o", "s", " ", "l", "o", "g", "o", "s", "\n", "#", " ", "L", "o", "g", "o", "\n", "l", "o", "g", "o", " ", "l", "o", "g", "o", " ", "l", "o", "g", "o">>
>>

Queries == {
    <<>>,
    <<" ">>,
    <<"l", "o", "g", "o">>,
    <<"b", "r", "a", "n", "d">>,
    <<"B", "r", "a", "n", "d", " ", "l", "o", "g", "o">>,
    <<"f", "o", "n", "t", " ", "o", "f">>
}

NDocs == Len(FileContents)
DocIds == 1..NDocs
\* The contents the watched file takes
WatchedDocs == {d \in DocIds : d <= 3}

\* ------------------------------------------------------------------------
\* State
\* ------------------------------------------------------------------------
VARIABLES
    phase,          \* "new", "starting" (startServer awaits initialize), "serving", "exited"
    sections,       \* SearchService.sections: the live index
    epoch,          \* number of assignments made to SearchService.sections
    ready,          \* EmbeddingService.isReady()
    config,         \* SearchService.config
    rebuilds,       \* the initialize() calls made, in call order
    updates,        \* number of updateSections() calls that have returned
    lastUpdate,     \* the argument of the last of them (a DocIds member, 0: none)
    searches,       \* the search() calls made, in call order
    configUpdates,  \* number of updateConfig() calls
    log,            \* logger.error messages, each with the rebuild it is about
    file,           \* content of the watched file (a DocIds member)
    writes,         \* number of writes made to the file
    events,         \* chokidar 'change' events emitted and not yet handled
    now,            \* Date.now()
    lastChangeTime, \* DocumentService.lastChangeTime
    loads,          \* loadDocument() calls of the watcher that await the file read
    document,       \* DocumentService.document (the content it was parsed from, 0: null)
    watching,       \* DocumentService.watcher is set
    puts,           \* PUT /api/doc requests, in arrival order
    requests,       \* GET /api/search requests, in arrival order
    markdown,       \* a text on its way through extractSections and back
    configs,        \* the values SearchService.config has had, oldest first, each
                    \* with the argument of the updateConfig() call that made it
    toc,            \* a section list on its way through the two tree builders
    dialog,         \* the search dialog of the client (SearchInterface)
    returned,       \* the object the last getConfig() call returned
    env             \* process.env: EDIT_TOKEN and JWT_SECRET

searchVars == <<sections, epoch, ready, config, configs, rebuilds, updates, lastUpdate,
                searches, configUpdates, log>>
auxVars == <<toc, dialog, returned, env>>
docVars == <<file, writes, events, now, lastChangeTime, loads, document, watching, puts,
            requests, markdown, toc, dialog, returned, env>>
vars == <<phase, sections, epoch, ready, config, rebuilds, updates, lastUpdate,
          searches, configUpdates, log, file, writes, events, now, lastChangeTime,
          loads, document, watching, puts, requests, markdown, configs, toc, dialog,
          returned, env>>

\* The argument {} of updateConfig: no field named
NoPartial == <<>>

\* A value that is not set (undefined)
Unset == "undefined"

\* process.env with neither EDIT_TOKEN nor JWT_SECRET set
NoEnv == [EDIT_TOKEN |-> Unset, JWT_SECRET |-> Unset]

\* No text is being taken through extractSections
NoMarkdown == [content |-> <<>>, pc |-> "none", sections |-> <<>>, text |-> <<>>,
               line |-> -1, found |-> 0]

\* No section list is being taken through the tree builders
NoToc == [levels |-> <<>>, pc |-> "none", server |-> <<>>, client |-> <<>>]
\* The search dialog is not open
NoDialog == [pc |-> "closed"]
\* getConfig() has not been called
NoReturned == [pc |-> "none"]

DefaultConfig ==
    [maxResults |-> DefaultMaxResults,
     minScore |-> DefaultMinScore,
     enableSemanticSearch |-> TRUE,
     enableKeywordSearch |-> TRUE]

\* DocumentService.getSections()
getSections(doc) == IF doc = 0 THEN <<>> ELSE extractSections(FileContents[doc])

\* What initialize() assigns to this.sections: every section with its
\* embedding of `${section.title} ${section.content}`.
IndexSections(secs) ==
    [i \in 1..Len(secs) |->
        [id |-> secs[i].id, slug |-> secs[i].slug, title |-> secs[i].title,
         level |-> secs[i].level, startLine |-> secs[i].startLine,
         endLine |-> secs[i].endLine, content |-> secs[i].content,
         embedding |-> generateEmbedding(secs[i].title \o <<" ">> \o secs[i].content)]]

\* The sections of an index without their embeddings
Plain(indexed) ==
    [i \in 1..Len(indexed) |->
        [id |-> indexed[i].id, slug |-> indexed[i].slug, title |-> indexed[i].title,
         level |-> indexed[i].level, startLine |-> indexed[i].startLine,
         endLine |-> indexed[i].endLine, content |-> indexed[i].content]]

InProgress(r) == r.pc \in {"init", "embed"}
RebuildsInProgress == {i \in 1..Len(rebuilds) : InProgress(rebuilds[i])}

Init ==
    /\ phase = "new"
    /\ sections = <<>>
    /\ epoch = 0
    /\ ready = FALSE
    /\ config = DefaultConfig
    /\ rebuilds = <<>>
    /\ updates = 0
    /\ lastUpdate = 0
    /\ searches = <<>>
    /\ configUpdates = 0
    /\ log = {}
    /\ file = 1
    /\ writes = 0
    /\ events = 0
    /\ now = DebounceMs
    /\ lastChangeTime = 0
    /\ loads = 0
    /\ document = 0
    /\ watching = FALSE
    /\ puts = <<>>
    /\ requests = <<>>
    /\ configs = <<[partial |-> NoPartial, value |-> config]>>
    /\ toc = NoToc
    /\ dialog = NoDialog
    /\ returned = NoReturned
    /\ env = NoEnv
    /\ markdown = NoMarkdown

\* ------------------------------------------------------------------------
\* SearchService.initialize and updateSections
\* ------------------------------------------------------------------------
\* The synchronous start of initialize(sections), up to its first await.
NewRebuild(doc, origin) ==
    [doc |-> doc, origin |-> origin, pc |-> "init", startEpoch |-> epoch, endEpoch |-> -1]

\* startServer / a direct caller: await searchService.initialize(sections)
Initialize(d) ==
    /\ phase = "new"
    /\ rebuilds = <<>>
    /\ phase' = "starting"
    /\ rebuilds' = Append(rebuilds, NewRebuild(d, "startup"))
    /\ UNCHANGED <<sections, epoch, ready, config, configs, updates, lastUpdate, searches,
                   configUpdates, log>>
    /\ UNCHANGED docVars

\* updateSections(sections): starts initialize and returns at once
StartUpdate(d) ==
    /\ updates < MaxUpdates
    /\ rebuilds' = Append(rebuilds, NewRebuild(d, "update"))
    /\ updates' = updates + 1
    /\ lastUpdate' = d

UpdateSections(d) ==
    /\ phase = "serving"
    /\ StartUpdate(d)
    /\ UNCHANGED <<phase, sections, epoch, ready, config, configs, searches, configUpdates, log>>
    /\ UNCHANGED docVars

\* await this.embeddingService.initialize() resolves; the embeddings of all
\* sections are then requested.
RebuildEmbeddingInit(i) ==
    /\ phase # "exited"
    /\ i \in 1..Len(rebuilds)
    /\ rebuilds[i].pc = "init"
    /\ ready' = TRUE
    /\ rebuilds' = [rebuilds EXCEPT ![i].pc = "embed"]
    /\ UNCHANGED <<phase, sections, epoch, config, configs, updates, lastUpdate, searches,
                   configUpdates, log>>
    /\ UNCHANGED docVars

\* Promise.all resolves: this.sections is assigned.  The caller that awaited
\* a startup initialize goes on to server.listen.
RebuildPublish(i) ==
    /\ phase # "exited"
    /\ i \in 1..Len(rebuilds)
    /\ rebuilds[i].pc = "embed"
    /\ sections' = IndexSections(getSections(rebuilds[i].doc))
    /\ epoch' = epoch + 1
    /\ rebuilds' = [rebuilds EXCEPT ![i].pc = "done", ![i].endEpoch = epoch + 1]
    /\ phase' = IF rebuilds[i].origin = "startup" THEN "serving" ELSE phase
    /\ UNCHANGED <<ready, config, configs, updates, lastUpdate, searches, configUpdates, log>>
    /\ UNCHANGED docVars

\* embeddingService.initialize() or a generateEmbedding() rejects: the catch
\* of initialize logs and rethrows; updateSections' catch logs again, the
\* catch of startServer ends the process.
RebuildFail(i) ==
    /\ phase # "exited"
    /\ i \in 1..Len(rebuilds)
    /\ InProgress(rebuilds[i])
    /\ rebuilds' = [rebuilds EXCEPT ![i].pc = "failed", ![i].endEpoch = epoch]
    /\ log' = log \cup
              (IF rebuilds[i].origin = "update"
               THEN {<<"Failed to initialize search service:", i>>,
                     <<"Failed to update search index:", i>>}
               ELSE {<<"Failed to initialize search service:", i>>,
                     <<"Failed to start server:", i>>})
    /\ phase' = IF rebuilds[i].origin = "startup" THEN "exited" ELSE phase
    /\ UNCHANGED <<sections, epoch, ready, config, configs, updates, lastUpdate, searches,
                   configUpdates>>
    /\ UNCHANGED docVars

\* ------------------------------------------------------------------------
\* SearchService.search
\* ------------------------------------------------------------------------
\* maxResults arguments tried; 0 is an absent argument
MaxResultsArgs == {0, 1, 2, 100}
ServiceMaxResultsArgs == {0, 1}
ServiceQueries == {q \in Queries : Len(q) = 4 \/ Len(q) = 5}
ServiceDocs == {d \in DocIds : d <= 2}

NoResponse == [query |-> <<>>, results |-> <<>>, totalResults |-> 0]

\* The rejection of search(): its catch logs 'Search failed' and rethrows.
SearchFailed(s, name) ==
    [s EXCEPT !.pc = "failed", !.error = name]

\* Mutant of FinishSearch: the keyword strategy runs whatever
\* enableKeywordSearch says.
FinishSearchKeywordAlways(s, semanticResults) ==
    SearchFailed([s EXCEPT !.keywordOn = TRUE, !.kwEpoch = epoch, !.cfgEnd = Len(configs),
                           !.keywordResults = keywordSearch(s.query, s.limit, sections)],
                 "TypeError")

\* Mutant of FinishSearch: the result of keywordSearch is awaited before it
\* is merged.
FinishSearchAwaited(s, semanticResults) ==
    LET merged == IF config.enableKeywordSearch
                  THEN mergeResults(semanticResults,
                                    keywordSearch(s.query, s.limit, sections), s.limit)
                  ELSE semanticResults
    IN [s EXCEPT !.pc = "done",
                 !.keywordOn = config.enableKeywordSearch,
                 !.kwEpoch = IF config.enableKeywordSearch THEN epoch ELSE -1,
                 !.cfgEnd = Len(configs),
                 !.keywordResults = IF config.enableKeywordSearch
                                    THEN keywordSearch(s.query, s.limit, sections)
                                    ELSE <<>>,
                 !.response = Respond(s.query, merged, s.limit)]

\* search() from the place after `await this.semanticSearch(...)` (or from
\* the start when the semantic strategy is off) to its return.  With the
\* keyword strategy enabled, keywordSearch scans this.sections and returns
\* Promise.resolve(...) (line 149); line 59 does not await it, so line 60
\* hands the Promise itself to mergeResults, whose `for (const result of
\* keywordResults)` (line 161) throws a TypeError because a Promise is not
\* iterable.  The catch of search() logs and rethrows it.  Otherwise: sort,
\* slice and respond with the semantic results.  keywordResults is the list
\* the Promise holds.  keywordSearch itself throws a SyntaxError, from new
\* RegExp(term, 'g') (line 127), when it scans a section for a term that is
\* no valid pattern.
FinishSearch(s, semanticResults) ==
    IF config.enableKeywordSearch /\ sections # <<>> /\ HasInvalidPattern(QueryTerms(s.query))
    THEN SearchFailed([s EXCEPT !.keywordOn = TRUE, !.kwEpoch = epoch,
                                !.cfgEnd = Len(configs)],
                      "SyntaxError")
    ELSE IF config.enableKeywordSearch
    THEN SearchFailed([s EXCEPT !.keywordOn = TRUE, !.kwEpoch = epoch,
                                !.cfgEnd = Len(configs),
                                !.keywordResults = keywordSearch(s.query, s.limit, sections)],
                      "TypeError")
    ELSE [s EXCEPT !.pc = "done",
                   !.keywordOn = FALSE,
                   !.kwEpoch = -1,
                   !.cfgEnd = Len(configs),
                   !.response = Respond(s.query, semanticResults, s.limit)]

\* Mutant of NewSearch: the limit grows with the searches made before, as if
\* a count were kept from one search to the next.
NewSearchKeepingCount(q, mr) ==
    LET s == [query |-> q, maxResults |-> mr,
              limit |-> Limit(mr, config) + Len(searches),
              pc |-> "embed",
              semanticOn |-> config.enableSemanticSearch,
              keywordOn |-> FALSE,
              semanticResults |-> <<>>,
              keywordResults |-> <<>>,
              semEpoch |-> -1, kwEpoch |-> -1,
              cfgStart |-> Len(configs), cfgSem |-> 0, cfgEnd |-> 0,
              afterUpdates |-> updates, afterDoc |-> lastUpdate,
              error |-> "none",
              response |-> NoResponse]
    IN IF ~config.enableSemanticSearch THEN FinishSearch(s, <<>>)
       ELSE IF ~ready THEN [s EXCEPT !.pc = "merge"]
       ELSE s

\* search(query, maxResults) up to its first await.  With the semantic
\* strategy off there is none and the call runs to its return; with the
\* embedding service not ready semanticSearch returns [] before its await.
NewSearch(q, mr) ==
    LET s == [query |-> q, maxResults |-> mr, limit |-> Limit(mr, config),
              pc |-> "embed",
              semanticOn |-> config.enableSemanticSearch,
              keywordOn |-> FALSE,
              semanticResults |-> <<>>,
              keywordResults |-> <<>>,
              semEpoch |-> -1, kwEpoch |-> -1,
              cfgStart |-> Len(configs), cfgSem |-> 0, cfgEnd |-> 0,
              afterUpdates |-> updates, afterDoc |-> lastUpdate,
              error |-> "none",
              response |-> NoResponse]
    IN IF ~config.enableSemanticSearch THEN FinishSearch(s, <<>>)
       ELSE IF ~ready THEN [s EXCEPT !.pc = "merge"]
       ELSE s

\* logger.error('Search failed:', error) in the catch of search()
LogSearch(s, i) ==
    IF s.pc = "failed" THEN log \cup {<<"Search failed:", i>>} ELSE log

SearchStart(q, mr) ==
    /\ phase \in {"new", "serving"}
    /\ Len(searches) < MaxSearches
    /\ searches' = Append(searches, NewSearch(q, mr))
    /\ UNCHANGED <<phase, sections, epoch, ready, config, configs, rebuilds, updates, lastUpdate,
                   configUpdates>>
    /\ log' = LogSearch(NewSearch(q, mr), Len(searches) + 1)
    /\ UNCHANGED docVars

\* semanticSearch after `await generateEmbedding(query)`: scans this.sections
SearchSemantic(i) ==
    /\ phase # "exited"
    /\ i \in 1..Len(searches)
    /\ searches[i].pc = "embed"
    /\ searches' = [searches EXCEPT
                      ![i].pc = "merge",
                      ![i].semEpoch = epoch,
                      ![i].cfgSem = Len(configs),
                      ![i].semanticResults =
                          semanticSearch(searches[i].query, searches[i].limit,
                                         sections, config.minScore)]
    /\ UNCHANGED <<phase, sections, epoch, ready, config, configs, rebuilds, updates, lastUpdate,
                   configUpdates, log>>
    /\ UNCHANGED docVars

\* search() resumes after `await this.semanticSearch(...)`
SearchFinish(i) ==
    /\ phase # "exited"
    /\ i \in 1..Len(searches)
    /\ searches[i].pc = "merge"
    /\ searches' = [searches EXCEPT ![i] = FinishSearch(searches[i],
                                                        searches[i].semanticResults)]
    /\ UNCHANGED <<phase, sections, epoch, ready, config, configs, rebuilds, updates, lastUpdate,
                   configUpdates>>
    /\ log' = LogSearch(FinishSearch(searches[i], searches[i].semanticResults), i)
    /\ UNCHANGED docVars

\* ------------------------------------------------------------------------
\* SearchService.updateConfig
\* ------------------------------------------------------------------------
ConfigFields == {"maxResults", "minScore", "enableSemanticSearch", "enableKeywordSearch"}

\* Partial<SearchConfig> arguments tried
Partials == {
    [minScore |-> 0],
    [maxResults |-> 1],
    [enableSemanticSearch |-> FALSE],
    [enableKeywordSearch |-> FALSE],
    [enableSemanticSearch |-> FALSE, enableKeywordSearch |-> FALSE],
    [minScore |-> 0, enableKeywordSearch |-> FALSE],
    [minScore |-> 500, maxResults |-> 2]
}
ServicePartials == {p \in Partials : DOMAIN p = {"enableKeywordSearch"}
                                      \/ DOMAIN p = {"enableSemanticSearch"}}

\* { ...this.config, ...config }
Spread(cfg, partial) ==
    [f \in ConfigFields |-> IF f \in DOMAIN partial THEN partial[f] ELSE cfg[f]]

UpdateConfig(partial) ==
    /\ phase \in {"new", "serving"}
    /\ configUpdates < MaxConfigUpdates
    /\ config' = Spread(config, partial)
    /\ configs' = Append(configs, [partial |-> partial, value |-> Spread(config, partial)])
    /\ configUpdates' = configUpdates + 1
    /\ UNCHANGED <<phase, sections, epoch, ready, rebuilds, updates, lastUpdate,
                   searches, log>>
    /\ UNCHANGED docVars

\* ------------------------------------------------------------------------
\* Specification of the SearchService under concurrent callers
\* ------------------------------------------------------------------------
Next ==
    \/ \E d \in ServiceDocs : Initialize(d)
    \/ \E d \in ServiceDocs : UpdateSections(d)
    \/ \E i \in 1..Len(rebuilds) : RebuildEmbeddingInit(i)
    \/ \E i \in 1..Len(rebuilds) : RebuildPublish(i)
    \/ \E i \in 1..Len(rebuilds) : RebuildFail(i)
    \/ \E q \in ServiceQueries, mr \in ServiceMaxResultsArgs : SearchStart(q, mr)
    \/ \E i \in 1..Len(searches) : SearchSemantic(i)
    \/ \E i \in 1..Len(searches) : SearchFinish(i)
    \/ \E p \in ServicePartials : UpdateConfig(p)

Spec == Init /\ [][Next]_vars

\* ------------------------------------------------------------------------
\* DocumentService, its file watcher, and PUT /api/doc
\* ------------------------------------------------------------------------
\* documentService.initialize() in startServer: loadDocument, startWatching.
\* No onDocumentChange callback is ever registered, so the notifyChange at
\* the end of loadDocument calls nothing.
StartupLoad ==
    /\ phase = "new"
    /\ ~watching
    /\ document' = file
    /\ watching' = TRUE
    /\ UNCHANGED <<phase, file, writes, events, now, lastChangeTime, loads, puts>>
    /\ UNCHANGED <<searchVars, requests, markdown, auxVars>>

\* await searchService.initialize(documentService.getSections())
StartupIndex ==
    /\ watching
    /\ Initialize(document)

\* The file is changed on disk from outside the service.
ExternalWrite(c) ==
    /\ phase # "exited"
    /\ writes < MaxWrites
    /\ c # file
    /\ file' = c
    /\ writes' = writes + 1
    /\ events' = IF watching THEN events + 1 ELSE events
    /\ UNCHANGED <<phase, now, lastChangeTime, loads, document, watching, puts>>
    /\ UNCHANGED <<searchVars, requests, markdown, auxVars>>

\* The watcher's 'change' handler up to `await this.loadDocument()`
WatchChange ==
    /\ phase # "exited"
    /\ events > 0
    /\ events' = events - 1
    /\ IF now - lastChangeTime < DebounceMs
       THEN UNCHANGED <<lastChangeTime, loads>>
       ELSE /\ lastChangeTime' = now
            /\ loads' = loads + 1
    /\ UNCHANGED <<phase, file, writes, now, document, watching, puts>>
    /\ UNCHANGED <<searchVars, requests, markdown, auxVars>>

\* loadDocument() of the watcher after its file read: parses what the file
\* holds and assigns this.document.
LoadRead ==
    /\ phase # "exited"
    /\ loads > 0
    /\ loads' = loads - 1
    /\ document' = file
    /\ UNCHANGED <<phase, file, writes, events, now, lastChangeTime, watching, puts>>
    /\ UNCHANGED <<searchVars, requests, markdown, auxVars>>

\* Time passes: a full debounce window.
Tick ==
    /\ phase # "exited"
    /\ now + DebounceMs <= MaxTime
    /\ now' = now + DebounceMs
    /\ UNCHANGED <<phase, file, writes, events, lastChangeTime, loads, document,
                   watching, puts>>
    /\ UNCHANGED <<searchVars, requests, markdown, auxVars>>

\* PUT /api/doc, authenticated and valid: updateDocument writes the file
PutWrite(c) ==
    /\ phase = "serving"
    /\ Len(puts) < MaxPuts
    /\ file' = c
    /\ events' = events + 1
    /\ puts' = Append(puts, [content |-> c, pc |-> "load"])
    /\ UNCHANGED <<phase, writes, now, lastChangeTime, loads, document, watching>>
    /\ UNCHANGED <<searchVars, requests, markdown, auxVars>>

\* updateDocument: await this.loadDocument()
PutLoad(i) ==
    /\ phase # "exited"
    /\ i \in 1..Len(puts)
    /\ puts[i].pc = "load"
    /\ document' = file
    /\ puts' = [puts EXCEPT ![i].pc = "index"]
    /\ UNCHANGED <<phase, file, writes, events, now, lastChangeTime, loads, watching>>
    /\ UNCHANGED <<searchVars, requests, markdown, auxVars>>

\* the route after `await documentService.updateDocument(...)`:
\* searchService.updateSections(documentService.getSections()), then the
\* response
PutIndex(i) ==
    /\ phase # "exited"
    /\ i \in 1..Len(puts)
    /\ puts[i].pc = "index"
    /\ StartUpdate(document)
    /\ puts' = [puts EXCEPT ![i].pc = "done"]
    /\ UNCHANGED <<phase, sections, epoch, ready, config, configs, searches, configUpdates, log>>
    /\ UNCHANGED <<file, writes, events, now, lastChangeTime, loads, document, watching,
                   requests, markdown, auxVars>>

\* ------------------------------------------------------------------------
\* Specification of the server: document, watcher, PUT and index
\* ------------------------------------------------------------------------
NextDoc ==
    \/ StartupLoad
    \/ StartupIndex
    \/ \E i \in 1..Len(rebuilds) : RebuildEmbeddingInit(i)
    \/ \E i \in 1..Len(rebuilds) : RebuildPublish(i)
    \/ \E i \in 1..Len(rebuilds) : RebuildFail(i)
    \/ \E c \in WatchedDocs : ExternalWrite(c)
    \/ WatchChange
    \/ LoadRead
    \/ Tick
    \/ \E c \in WatchedDocs : PutWrite(c)
    \/ \E i \in 1..Len(puts) : PutLoad(i)
    \/ \E i \in 1..Len(puts) : PutIndex(i)

SpecDoc == Init /\ [][NextDoc]_vars

\* ------------------------------------------------------------------------
\* Specification of single searches over every index, configuration, query
\* and limit of the bounded input sets
\* ------------------------------------------------------------------------
SearchConfigs == {DefaultConfig} \cup {Spread(DefaultConfig, p) : p \in Partials}

InitSearch ==
    /\ \E d \in DocIds :
          /\ sections = IndexSections(getSections(d))
          /\ rebuilds = <<[doc |-> d, origin |-> "startup", pc |-> "done",
                           startEpoch |-> 0, endEpoch |-> 1]>>
          /\ file = d
          /\ document = d
    /\ phase = "serving"
    /\ epoch = 1
    /\ ready = TRUE
    /\ config \in SearchConfigs
    /\ updates = 0
    /\ lastUpdate = 0
    /\ searches = <<>>
    /\ configUpdates = 0
    /\ log = {}
    /\ writes = 0
    /\ events = 0
    /\ now = DebounceMs
    /\ lastChangeTime = 0
    /\ loads = 0
    /\ watching = TRUE
    /\ puts = <<>>
    /\ requests = <<>>
    /\ configs = <<[partial |-> NoPartial, value |-> config]>>
    /\ toc = NoToc
    /\ dialog = NoDialog
    /\ returned = NoReturned
    /\ env = NoEnv
    /\ markdown = NoMarkdown

NextSearch ==
    \/ \E q \in Queries, mr \in MaxResultsArgs : SearchStart(q, mr)
    \/ \E i \in 1..Len(searches) : SearchSemantic(i)
    \/ \E i \in 1..Len(searches) : SearchFinish(i)

SpecSearch == InitSearch /\ [][NextSearch]_vars

\* ------------------------------------------------------------------------
\* Properties
\* ------------------------------------------------------------------------
Done(s) == s.pc = "done"
FinishedSearches == {i \in 1..Len(searches) : Done(searches[i])}
\* search() has settled: it returned a response or it threw
Settled(s) == s.pc \in {"done", "failed"}
SettledSearches == {i \in 1..Len(searches) : Settled(searches[i])}
NoRebuildFailed == \A i \in 1..Len(rebuilds) : rebuilds[i].pc # "failed"
AllRebuildsDone == \A i \in 1..Len(rebuilds) : rebuilds[i].pc = "done"

\* The sections of the snapshot published as the e-th assignment to
\* this.sections (epoch 0: the empty index of a new service).
SnapshotSections(e) ==
    IF \E i \in 1..Len(rebuilds) : rebuilds[i].pc = "done" /\ rebuilds[i].endEpoch = e
    THEN getSections(rebuilds[CHOOSE i \in 1..Len(rebuilds) :
                                  rebuilds[i].pc = "done" /\ rebuilds[i].endEpoch = e].doc)
    ELSE <<>>

\* C1: every search is answered from one index snapshot: the vector strategy
\* and the keyword strategy (whose results are what the merge combines) of
\* one search read the same assignment of this.sections, also when a rebuild
\* publishes while the search is in flight.
C1_OneSnapshotPerSearch ==
    \A i \in SettledSearches :
        (searches[i].semEpoch # -1 /\ searches[i].kwEpoch # -1)
            => SnapshotSections(searches[i].semEpoch) = SnapshotSections(searches[i].kwEpoch)

\* C2: at most one index rebuild is in progress at any time: an
\* updateSections call that arrives during a rebuild starts no second,
\* overlapping rebuild.
C2_AtMostOneRebuild == Cardinality(RebuildsInProgress) <= 1

\* C3: no update is lost: once all rebuilds have finished (none failed), the
\* live index holds the sections of the last updateSections call, in every
\* order in which the rebuilds finish.
C3_LastUpdateWins ==
    (updates >= 1 /\ AllRebuildsDone) => Plain(sections) = getSections(lastUpdate)

\* C4: once updateSections(S) has returned, every search started after that
\* (and before any later updateSections call) is answered from S, without any
\* further waiting.
C4_LiveWhenUpdateReturns ==
    \A i \in SettledSearches :
        (searches[i].afterUpdates >= 1 /\ searches[i].afterUpdates = updates
         /\ NoRebuildFailed)
            => /\ searches[i].kwEpoch # -1 =>
                    SnapshotSections(searches[i].kwEpoch) = getSections(searches[i].afterDoc)
               /\ searches[i].semEpoch # -1 =>
                    SnapshotSections(searches[i].semEpoch) = getSections(searches[i].afterDoc)

\* C5: when a rebuild fails, the live section set is exactly the one from
\* before that rebuild began; the failure is logged, and a failure of a
\* rebuild started by updateSections does not stop the process.
C5_FailedRebuildKeepsSnapshot ==
    \A i \in 1..Len(rebuilds) :
        rebuilds[i].pc = "failed"
            => /\ SnapshotSections(rebuilds[i].endEpoch)
                    = SnapshotSections(rebuilds[i].startEpoch)
               /\ <<"Failed to initialize search service:", i>> \in log
               /\ rebuilds[i].origin = "update"
                    => (<<"Failed to update search index:", i>> \in log /\ phase # "exited")

\* The server is quiet: no change event waits, no reload, PUT or rebuild is
\* under way.
DocumentQuiet ==
    /\ watching
    /\ phase # "exited"
    /\ events = 0
    /\ loads = 0
    /\ \A i \in 1..Len(puts) : puts[i].pc # "load"

Quiet ==
    /\ DocumentQuiet
    /\ phase = "serving"
    /\ \A i \in 1..Len(puts) : puts[i].pc = "done"
    /\ RebuildsInProgress = {}

\* C6: every document change reaches the search index: once the system is
\* quiet (and no rebuild failed), the sections searched are the sections
\* DocumentService.getSections() returns.
C6_IndexFollowsDocument ==
    (Quiet /\ NoRebuildFailed) => Plain(sections) = getSections(document)

\* C7: change notifications of a burst are coalesced, not lost: once every
\* notification has been handled and every reload has run, the in-memory
\* document equals the final file content.
C7_DocumentFollowsFile ==
    DocumentQuiet => FileContents[document] = FileContents[file]

\* C8: search of an empty or whitespace-only query raises no error and
\* returns zero results with totalResults 0, for every index and every
\* configuration (any minScore).
C8_EmptyQueryNoResults ==
    \A i \in SettledSearches :
        Trim(searches[i].query) = <<>>
            => /\ Done(searches[i])
               /\ searches[i].response.results = <<>>
               /\ searches[i].response.totalResults = 0

\* C9: with enableSemanticSearch and enableKeywordSearch both false, search
\* returns zero results for every query and every index content.
C9_BothDisabledNoResults ==
    \A i \in SettledSearches :
        (~config.enableSemanticSearch /\ ~config.enableKeywordSearch)
            => /\ Done(searches[i])
               /\ searches[i].response.results = <<>>
               /\ searches[i].response.totalResults = 0

\* C9 witness: a finished search with both strategies off, of a query that
\* the keyword strategy alone would answer with at least one section.
C9_Witness ==
    \E i \in FinishedSearches :
        /\ ~config.enableSemanticSearch
        /\ ~config.enableKeywordSearch
        /\ keywordSearch(searches[i].query, searches[i].limit, sections) # <<>>

MaxRequests == 1      \* GET /api/search requests per run

MaxQueryLength == 500
MinLimit == 1
MaxLimit == 100
ValidationStatus == 422
OkStatus == 200
ErrorStatus == 500

\* A query-string parameter that is not there
Undefined == <<"undefined">>

Digits == <<"0", "1", "2", "3", "4", "5", "6", "7", "8", "9">>
IsDigit(c) == \E d \in 1..Len(Digits) : Digits[d] = c
DigitValue(c) == (CHOOSE d \in 1..Len(Digits) : Digits[d] = c) - 1

\* The value of the longest prefix of digits of s, read after acc
RECURSIVE DigitsPrefix(_, _)
DigitsPrefix(s, acc) ==
    IF s = <<>> \/ ~IsDigit(Head(s)) THEN acc
    ELSE DigitsPrefix(Tail(s), 10 * acc + DigitValue(Head(s)))

NaN == [nan |-> TRUE, value |-> 0]

\* parseInt(s, 10): leading whitespace is skipped, a sign is read, then the
\* longest prefix of digits; what follows is ignored; no digit gives NaN.
parseInt(s) ==
    LET t == TrimStart(s)
        signed == t # <<>> /\ Head(t) \in {"-", "+"}
        body == IF signed THEN Tail(t) ELSE t
        magnitude == DigitsPrefix(body, 0)
    IN IF body = <<>> \/ ~IsDigit(Head(body)) THEN NaN
       ELSE [nan |-> FALSE,
             value |-> IF signed /\ Head(t) = "-" THEN 0 - magnitude ELSE magnitude]

\* Mutant of QueryRejected: a whitespace-only query passes.
QueryRejectedNoTrim(query) ==
    \/ query = Undefined
    \/ query = <<>>
    \/ Len(query) > MaxQueryLength

\* The three checks of q: `!query || typeof query !== 'string'`,
\* `query.trim().length === 0`, `query.length > 500`
QueryRejected(query) ==
    \/ query = Undefined
    \/ query = <<>>
    \/ Len(Trim(query)) = 0
    \/ Len(query) > MaxQueryLength

\* `limit ? parseInt(limit, 10) : undefined`, undefined being the absent
\* argument 0 of search
RouteMaxResults(limit) ==
    IF limit = Undefined \/ limit = <<>> THEN [nan |-> FALSE, value |-> 0]
    ELSE parseInt(limit)

\* `maxResults !== undefined && (isNaN(maxResults) || maxResults < 1 ||
\* maxResults > 100)`
LimitRejected(limit) ==
    /\ limit # Undefined
    /\ limit # <<>>
    /\ LET maxResults == parseInt(limit)
       IN maxResults.nan \/ maxResults.value < MinLimit \/ maxResults.value > MaxLimit

\* The handler up to `await searchService.search(...)`: it throws a
\* ValidationError, or search starts with the trimmed query.
RouteSearch(query, limit) ==
    /\ phase = "serving"
    /\ Len(requests) < MaxRequests
    /\ IF QueryRejected(query) \/ LimitRejected(limit)
       THEN /\ requests' = Append(requests,
                                  [q |-> query, limit |-> limit, status |-> "rejected",
                                   statusCode |-> ValidationStatus, search |-> 0,
                                   body |-> NoResponse])
            /\ UNCHANGED <<searches, log>>
       ELSE /\ requests' = Append(requests,
                                  [q |-> query, limit |-> limit, status |-> "searching",
                                   statusCode |-> 0, search |-> Len(searches) + 1,
                                   body |-> NoResponse])
            /\ searches' = Append(searches,
                                  NewSearch(Trim(query), RouteMaxResults(limit).value))
            /\ log' = LogSearch(NewSearch(Trim(query), RouteMaxResults(limit).value),
                                Len(searches) + 1)
    /\ UNCHANGED <<phase, sections, epoch, ready, config, configs, rebuilds, updates, lastUpdate,
                   configUpdates>>
    /\ UNCHANGED <<file, writes, events, now, lastChangeTime, loads, document, watching,
                   puts, markdown, auxVars>>

\* The handler after `await searchService.search(...)`: res.json(results),
\* or, when search rejected, the error rethrown by the handler's catch; an
\* error without statusCode is answered 500 by errorHandler.
RouteRespond(i) ==
    /\ phase = "serving"
    /\ i \in 1..Len(requests)
    /\ requests[i].status = "searching"
    /\ searches[requests[i].search].pc \in {"done", "failed"}
    /\ requests' = IF searches[requests[i].search].pc = "done"
                   THEN [requests EXCEPT ![i].status = "answered",
                                         ![i].statusCode = OkStatus,
                                         ![i].body = searches[requests[i].search].response]
                   ELSE [requests EXCEPT ![i].status = "failed",
                                         ![i].statusCode = ErrorStatus]
    /\ UNCHANGED <<phase, searchVars>>
    /\ UNCHANGED <<file, writes, events, now, lastChangeTime, loads, document, watching,
                   puts, markdown, auxVars>>

\* Values of q and of limit tried
LongQuery == [i \in 1..(MaxQueryLength + 1) |-> "a"]
RouteQueries == {
    Undefined,
    <<>>,
    <<" ", " ">>,
    <<"l", "o", "g", "o">>,
    <<" ", "B", "r", "a", "n", "d", " ", "l", "o", "g", "o", " ">>,
    LongQuery }
RouteLimits == {
    Undefined,
    <<>>,
    <<"2">>,
    <<"1", "0", "0">>,
    <<"0">>,
    <<"-", "1">>,
    <<"1", "0", "1">>,
    <<"2", "x">>,
    <<"1", ".", "5">>,
    <<"a", "b", "c">> }
\* The document of FileContents the server of SpecRoute serves
RouteDoc == NDocs - 1
RouteConfigs == {DefaultConfig, Spread(DefaultConfig, [maxResults |-> 1])}

InitRoute ==
    /\ sections = IndexSections(getSections(RouteDoc))
    /\ rebuilds = <<[doc |-> RouteDoc, origin |-> "startup", pc |-> "done",
                     startEpoch |-> 0, endEpoch |-> 1]>>
    /\ file = RouteDoc
    /\ document = RouteDoc
    /\ phase = "serving"
    /\ epoch = 1
    /\ ready = TRUE
    /\ config \in RouteConfigs
    /\ updates = 0
    /\ lastUpdate = 0
    /\ searches = <<>>
    /\ configUpdates = 0
    /\ log = {}
    /\ writes = 0
    /\ events = 0
    /\ now = DebounceMs
    /\ lastChangeTime = 0
    /\ loads = 0
    /\ watching = TRUE
    /\ puts = <<>>
    /\ requests = <<>>
    /\ configs = <<[partial |-> NoPartial, value |-> config]>>
    /\ toc = NoToc
    /\ dialog = NoDialog
    /\ returned = NoReturned
    /\ env = NoEnv
    /\ markdown = NoMarkdown

NextRoute ==
    \/ \E q \in RouteQueries, l \in RouteLimits : RouteSearch(q, l)
    \/ \E i \in 1..Len(searches) : SearchSemantic(i)
    \/ \E i \in 1..Len(searches) : SearchFinish(i)
    \/ \E i \in 1..Len(requests) : RouteRespond(i)

SpecRoute == InitRoute /\ [][NextRoute]_vars

\* A limit parameter was given: the parameter is there and is not empty
LimitSupplied(limit) == limit # Undefined /\ limit # <<>>

\* The text is a whole number
IsWholeNumberText(s) ==
    LET body == IF s # <<>> /\ Head(s) = "-" THEN Tail(s) ELSE s
    IN body # <<>> /\ \A i \in 1..Len(body) : IsDigit(body[i])

\* The text is a whole number of [1, 100]
ValidLimitText(s) ==
    /\ IsWholeNumberText(s)
    /\ parseInt(s).value >= MinLimit
    /\ parseInt(s).value <= MaxLimit

\* C11: a caller-supplied limit that is not an integer of [1,100] (0, a
\* negative number, a number above 100, text that is not a whole number) is
\* rejected as an input error: no request with such a limit reaches search.
C11_BadLimitRejected ==
    \A r \in 1..Len(requests) :
        (LimitSupplied(requests[r].limit) /\ ~ValidLimitText(requests[r].limit))
            => requests[r].status = "rejected"

\* The query of a request is missing, empty, whitespace-only or longer than
\* 500 characters
BadQuery(q) ==
    \/ q = Undefined
    \/ \A i \in 1..Len(q) : IsSpace(q[i])
    \/ Len(q) > MaxQueryLength

\* The requests that arrive in a step
Arriving == {r \in 1..Len(requests') : r > Len(requests)}

\* C12: a search request whose query is missing, empty, whitespace-only or
\* longer than 500 characters is rejected with a validation error of status
\* 422 before search is called, and the index and the configuration are left
\* as they were.
C12_BadQueryRejected ==
    [][\A r \in Arriving :
          BadQuery(requests'[r].q) =>
              /\ requests'[r].status = "rejected"
              /\ requests'[r].statusCode = ValidationStatus
              /\ requests'[r].search = 0
              /\ UNCHANGED <<searches, sections, epoch, config>>]_vars

\* C12 witness: a rejected request of a whitespace-only query whose limit,
\* 2, is valid
C12_Witness ==
    \E r \in 1..Len(requests) :
        /\ requests[r].q = <<" ", " ">>
        /\ requests[r].limit = <<"2">>
        /\ requests[r].status = "rejected"
        /\ searches = <<>>

\* ------------------------------------------------------------------------
\* Scores a section is to get, computed from the section alone
\* ------------------------------------------------------------------------
VectorScore(query, section) ==
    cosineSimilarity(generateEmbedding(query), section.embedding)

\* min(1, R / (termCount * 5)) in thousandths, for R > 0
NormalisedKeywordScore(query, section) ==
    Min((RawKeywordScore(QueryTerms(query), section) * ScoreScale)
            \div (Len(QueryTerms(query)) * KeywordNorm),
        ScoreScale)

InVectorSet(query, section) == VectorScore(query, section) >= config.minScore
InKeywordSet(query, section) == RawKeywordScore(QueryTerms(query), section) > 0

HybridScore(query, section) ==
    IF InVectorSet(query, section) /\ InKeywordSet(query, section)
    THEN (VectorScore(query, section) * SemanticWeight
          + NormalisedKeywordScore(query, section) * KeywordWeight)
         \div (SemanticWeight + KeywordWeight)
    ELSE IF InVectorSet(query, section) THEN VectorScore(query, section)
    ELSE NormalisedKeywordScore(query, section)

\* Settled searches in which both strategies ran
HybridSearches ==
    {i \in SettledSearches : searches[i].semanticOn /\ searches[i].keywordOn /\ ready}

\* C13: with both strategies enabled, for every limit, search returns, and
\* a returned section whose cosine similarity is at least minScore and whose
\* raw keyword score is positive has the score 0.6 * vector + 0.4 * keyword,
\* and a section that qualifies under one strategy only has that strategy's
\* score: the limit and the other sections of the index have no part in it.
C13_HybridScoreOfSection ==
    \A i \in HybridSearches :
        /\ Done(searches[i])
        /\ \A k \in 1..Len(searches[i].response.results) :
               searches[i].response.results[k].score
                   = HybridScore(searches[i].query, searches[i].response.results[k].section)

\* Number of places of text at which term stands
Occurrences(text, term) ==
    Cardinality({i \in 1..Len(text) :
                    /\ i + Len(term) - 1 <= Len(text)
                    /\ SubSeq(text, i, i + Len(term) - 1) = term})

\* R: the sum over the terms of 3 * occurrences in the title + occurrences
\* in the body, case-insensitive
RECURSIVE RawOfTerms(_, _)
RawOfTerms(terms, section) ==
    IF terms = <<>> THEN 0
    ELSE 3 * Occurrences(ToLowerCase(section.title), Head(terms))
         + Occurrences(ToLowerCase(section.content), Head(terms))
         + RawOfTerms(Tail(terms), section)

\* Settled searches in which the keyword strategy ran alone
KeywordOnlySearches ==
    {i \in SettledSearches : ~searches[i].semanticOn /\ searches[i].keywordOn}

ResultIds(results) == {results[k].section.id : k \in 1..Len(results)}

\* C14: in keyword-only mode search returns, and every returned section has
\* the score min(1, R / (termCount * 5)), R being the sum over the query's
\* terms longer than 2 characters of 3 * title occurrences + body
\* occurrences; no section with R = 0 is returned, every section with R > 0
\* is returned while the limit leaves room, and a query without such terms
\* returns nothing (no division by a term count of zero takes place).
C14_KeywordOnlyScore ==
    \A i \in KeywordOnlySearches :
        LET terms == QueryTerms(searches[i].query)
            results == searches[i].response.results
        IN /\ Done(searches[i])
           /\ \A k \in 1..Len(results) :
                 LET R == RawOfTerms(terms, results[k].section)
                 IN /\ R > 0
                    /\ Len(terms) > 0
                    /\ results[k].score
                         = Min((R * ScoreScale) \div (Len(terms) * KeywordNorm), ScoreScale)
           /\ Len(results) < searches[i].limit =>
                 \A j \in 1..Len(sections) :
                     RawOfTerms(terms, sections[j]) > 0
                         => sections[j].id \in ResultIds(results)
           /\ terms = <<>> => results = <<>>

\* Position of a section in the live index
IndexPosition(id) == CHOOSE j \in 1..Len(sections) : sections[j].id = id

MaxRepeats == 2       \* search() calls per run of SpecRepeat

RepeatQueries == {q \in Queries : Len(q) = 4 \/ Len(q) = 10}
RepeatMaxResultsArgs == {0, 1, 2}
RepeatDocs == {d \in DocIds : d >= 3}
RepeatConfigs == {DefaultConfig,
                  Spread(DefaultConfig, [enableKeywordSearch |-> FALSE]),
                  Spread(DefaultConfig, [minScore |-> 0, enableKeywordSearch |-> FALSE])}

\* One more call of search(query, maxResults) on the running service
SearchRepeat(q, mr) ==
    /\ phase = "serving"
    /\ Len(searches) < MaxRepeats
    /\ searches' = Append(searches, NewSearch(q, mr))
    /\ UNCHANGED <<phase, sections, epoch, ready, config, configs, rebuilds, updates, lastUpdate,
                   configUpdates>>
    /\ log' = LogSearch(NewSearch(q, mr), Len(searches) + 1)
    /\ UNCHANGED docVars

InitRepeat ==
    /\ \E d \in RepeatDocs :
          /\ sections = IndexSections(getSections(d))
          /\ rebuilds = <<[doc |-> d, origin |-> "startup", pc |-> "done",
                           startEpoch |-> 0, endEpoch |-> 1]>>
          /\ file = d
          /\ document = d
    /\ phase = "serving"
    /\ epoch = 1
    /\ ready = TRUE
    /\ config \in RepeatConfigs
    /\ updates = 0
    /\ lastUpdate = 0
    /\ searches = <<>>
    /\ configUpdates = 0
    /\ log = {}
    /\ writes = 0
    /\ events = 0
    /\ now = DebounceMs
    /\ lastChangeTime = 0
    /\ loads = 0
    /\ watching = TRUE
    /\ puts = <<>>
    /\ requests = <<>>
    /\ configs = <<[partial |-> NoPartial, value |-> config]>>
    /\ toc = NoToc
    /\ dialog = NoDialog
    /\ returned = NoReturned
    /\ env = NoEnv
    /\ markdown = NoMarkdown

NextRepeat ==
    \/ \E q \in RepeatQueries, mr \in RepeatMaxResultsArgs : SearchRepeat(q, mr)
    \/ \E i \in 1..Len(searches) : SearchSemantic(i)
    \/ \E i \in 1..Len(searches) : SearchFinish(i)

SpecRepeat == InitRepeat /\ [][NextRepeat]_vars

IndexOfOtherDimension(indexed) ==
    [i \in 1..Len(indexed) |->
        [indexed[i] EXCEPT !.embedding = Append(indexed[i].embedding, 0)]]

DegradedQueries == {q \in Queries : Len(q) = 4 \/ Len(q) = 10}
DegradedMaxResultsArgs == {0, 1}
DegradedDocs == {d \in DocIds : d >= 3}
DegradedConfigs == {DefaultConfig, Spread(DefaultConfig, [enableKeywordSearch |-> FALSE])}

InitDegraded ==
    /\ \E d \in DegradedDocs :
          /\ sections \in {IndexSections(getSections(d)),
                           IndexOfOtherDimension(IndexSections(getSections(d)))}
          /\ rebuilds = <<[doc |-> d, origin |-> "startup", pc |-> "done",
                           startEpoch |-> 0, endEpoch |-> 1]>>
          /\ file = d
          /\ document = d
    /\ phase = "serving"
    /\ epoch = 1
    /\ ready \in BOOLEAN
    /\ config \in DegradedConfigs
    /\ updates = 0
    /\ lastUpdate = 0
    /\ searches = <<>>
    /\ configUpdates = 0
    /\ log = {}
    /\ writes = 0
    /\ events = 0
    /\ now = DebounceMs
    /\ lastChangeTime = 0
    /\ loads = 0
    /\ watching = TRUE
    /\ puts = <<>>
    /\ requests = <<>>
    /\ configs = <<[partial |-> NoPartial, value |-> config]>>
    /\ toc = NoToc
    /\ dialog = NoDialog
    /\ returned = NoReturned
    /\ env = NoEnv
    /\ markdown = NoMarkdown

NextDegraded ==
    \/ \E q \in DegradedQueries, mr \in DegradedMaxResultsArgs : SearchStart(q, mr)
    \/ \E i \in 1..Len(searches) : SearchSemantic(i)
    \/ \E i \in 1..Len(searches) : SearchFinish(i)

SpecDegraded == InitDegraded /\ [][NextDegraded]_vars

\* What search returns when the keyword strategy runs alone
KeywordOnlyResponse(query, limit) ==
    Respond(query, mergeResults(<<>>, keywordSearch(query, limit, sections), limit), limit)

\* C17: while isReady() is false, search does not fail: it never waits for
\* the vectorizer, the vector strategy contributes nothing, and the response
\* is the keyword-only response for the same query, index and limit (no
\* results when the keyword strategy is off as well).
C17_NotReadyIsKeywordOnly ==
    ~ready =>
        \A i \in 1..Len(searches) :
            /\ searches[i].pc # "embed"
            /\ searches[i].pc # "failed"
            /\ searches[i].semanticResults = <<>>
            /\ Done(searches[i]) =>
                  searches[i].response
                      = IF searches[i].keywordOn
                        THEN KeywordOnlyResponse(searches[i].query, searches[i].limit)
                        ELSE Respond(searches[i].query, <<>>, searches[i].limit)

\* The query's vector and a section's vector differ in dimension
DimensionMismatch(query) ==
    \E j \in 1..Len(sections) :
        Len(sections[j].embedding) # Len(generateEmbedding(query))

\* C18: when the query's vector and a section's vector differ in dimension,
\* search fails with an error: it never returns a result list.
C18_MismatchFails ==
    \A i \in 1..Len(searches) :
        (ready /\ searches[i].semanticOn /\ DimensionMismatch(searches[i].query))
            => ~Done(searches[i])

\* ------------------------------------------------------------------------
\* utils/markdown generateMarkdownFromSections, DocumentService.getSection,
\* and the specification that takes texts through extractSections and back
\* ------------------------------------------------------------------------
MaxDocLines == 3      \* lines of a text

\* '#'.repeat(level)
RECURSIVE Hashes(_)
Hashes(level) == IF level <= 0 THEN <<>> ELSE <<"#">> \o Hashes(level - 1)

\* The heading line and the body of one section
SectionMarkdown(section) ==
    Hashes(section.level) \o <<" ">> \o section.title \o <<"\n", "\n">> \o section.content

\* Mutant of generateMarkdownFromSections: the bodies are left out.
RECURSIVE generateMarkdownHeadingsOnly(_)
generateMarkdownHeadingsOnly(secs) ==
    IF secs = <<>> THEN <<>>
    ELSE IF Len(secs) = 1 THEN Hashes(secs[1].level) \o <<" ">> \o secs[1].title
    ELSE Hashes(secs[1].level) \o <<" ">> \o secs[1].title \o <<"\n", "\n">>
         \o generateMarkdownHeadingsOnly(Tail(secs))

\* sections.map(...).join('\n\n')
RECURSIVE generateMarkdownFromSections(_)
generateMarkdownFromSections(secs) ==
    IF secs = <<>> THEN <<>>
    ELSE IF Len(secs) = 1 THEN SectionMarkdown(secs[1])
    ELSE SectionMarkdown(secs[1]) \o <<"\n", "\n">>
         \o generateMarkdownFromSections(Tail(secs))

\* getSections().find(section => section.slug === slug) || null, as the
\* position of the section found (0: null)
getSection(secs, slug) ==
    IF \E k \in 1..Len(secs) : secs[k].slug = slug
    THEN CHOOSE k \in 1..Len(secs) :
             /\ secs[k].slug = slug
             /\ \A l \in 1..(k - 1) : secs[l].slug # slug
    ELSE 0

\* Mutant of findSectionByLineNumber: the start line itself is left out.
findSectionAfterStartLine(secs, lineNumber) ==
    IF \E k \in 1..Len(secs) :
           lineNumber > secs[k].startLine /\ lineNumber <= secs[k].endLine
    THEN CHOOSE k \in 1..Len(secs) :
             /\ lineNumber > secs[k].startLine /\ lineNumber <= secs[k].endLine
             /\ \A l \in 1..(k - 1) :
                    ~(lineNumber > secs[l].startLine /\ lineNumber <= secs[l].endLine)
    ELSE 0

\* sections.find(section => lineNumber >= section.startLine && lineNumber <=
\* section.endLine) || null, as the position of the section found (0: null)
findSectionByLineNumber(secs, lineNumber) ==
    IF \E k \in 1..Len(secs) :
           lineNumber >= secs[k].startLine /\ lineNumber <= secs[k].endLine
    THEN CHOOSE k \in 1..Len(secs) :
             /\ lineNumber >= secs[k].startLine /\ lineNumber <= secs[k].endLine
             /\ \A l \in 1..(k - 1) :
                    ~(lineNumber >= secs[l].startLine /\ lineNumber <= secs[l].endLine)
    ELSE 0

\* Lines a text is made of
MarkdownLines == {
    <<"#", " ", "L", "o", "g", "o">>,
    <<"#", "#", " ", "L", "o", "g", "o">>,
    <<"#", " ", "F", "o", "n", "t", "s">>,
    <<" ", "a", "r", "t">>,
    <<>> }
MarkdownTexts ==
    {JoinLines(ls) : ls \in UNION {[1..n -> MarkdownLines] : n \in 1..MaxDocLines}}

InitMarkdown ==
    /\ markdown \in {[content |-> c, pc |-> "raw", sections |-> <<>>, text |-> <<>>,
                         line |-> -1, found |-> 0] :
                        c \in MarkdownTexts}
    /\ phase = "new"
    /\ sections = <<>>
    /\ epoch = 0
    /\ ready = FALSE
    /\ config = DefaultConfig
    /\ rebuilds = <<>>
    /\ updates = 0
    /\ lastUpdate = 0
    /\ searches = <<>>
    /\ configUpdates = 0
    /\ log = {}
    /\ file = 1
    /\ writes = 0
    /\ events = 0
    /\ now = DebounceMs
    /\ lastChangeTime = 0
    /\ loads = 0
    /\ document = 0
    /\ watching = FALSE
    /\ puts = <<>>
    /\ requests = <<>>
    /\ configs = <<[partial |-> NoPartial, value |-> config]>>
    /\ toc = NoToc
    /\ dialog = NoDialog
    /\ returned = NoReturned
    /\ env = NoEnv

\* extractSections(content)
ExtractSections ==
    /\ markdown.pc = "raw"
    /\ markdown' = [markdown EXCEPT !.pc = "extracted",
                                    !.sections = extractSections(markdown.content)]
    /\ UNCHANGED <<phase, searchVars>>
    /\ UNCHANGED <<file, writes, events, now, lastChangeTime, loads, document, watching,
                   puts, requests, auxVars>>

\* generateMarkdownFromSections(sections)
GenerateMarkdown ==
    /\ markdown.pc = "extracted"
    /\ markdown' = [markdown EXCEPT !.pc = "generated",
                                    !.text = generateMarkdownFromSections(markdown.sections)]
    /\ UNCHANGED <<phase, searchVars>>
    /\ UNCHANGED <<file, writes, events, now, lastChangeTime, loads, document, watching,
                   puts, requests, auxVars>>

\* findSectionByLineNumber(sections, lineNumber) for a line of the text (or
\* the number after its last line)
FindSection(lineNumber) ==
    /\ markdown.pc \in {"extracted", "generated"}
    /\ markdown.line # lineNumber
    /\ markdown' = [markdown EXCEPT
                      !.line = lineNumber,
                      !.found = findSectionByLineNumber(markdown.sections, lineNumber)]
    /\ UNCHANGED <<phase, searchVars>>
    /\ UNCHANGED <<file, writes, events, now, lastChangeTime, loads, document, watching,
                   puts, requests, auxVars>>

NextMarkdown ==
    \/ ExtractSections
    \/ GenerateMarkdown
    \/ \E n \in 0..(MaxDocLines + 1) : FindSection(n)

SpecMarkdown == InitMarkdown /\ [][NextMarkdown]_vars

\* The lines of a text that are not blank, each trimmed
IsNotBlank(line) == line # <<>>
TrimEach(lines) == [i \in 1..Len(lines) |-> Trim(lines[i])]
NonBlankLines(text) == SelectSeq(TrimEach(SplitLines(text)), IsNotBlank)

\* The first line of the text that is not blank is a heading line
StartsWithHeading(text) ==
    /\ NonBlankLines(text) # <<>>
    /\ HeadingMatch(Head(NonBlankLines(text))).level > 0

C20_SlugsDistinct ==
    markdown.pc # "raw" =>
        \A k \in 1..Len(markdown.sections) :
            /\ \A l \in 1..Len(markdown.sections) :
                   k # l => markdown.sections[k].slug # markdown.sections[l].slug
            /\ getSection(markdown.sections, markdown.sections[k].slug) = k

\* ------------------------------------------------------------------------
\* utils/markdown extractTableOfContents and the client's
\* buildNavigationTree.  A tree is held as the positions of its roots and,
\* for every section position, the positions of its children, in order.
\* ------------------------------------------------------------------------
MaxSections == 3      \* sections of a list given to the tree builders
MaxLevel == 6

EmptyTree(n) == [roots |-> <<>>, children |-> [i \in 1..n |-> <<>>]]

\* Mutant of PopStack: only deeper items are removed from the stack.
RECURSIVE PopStackDeeperOnly(_, _, _)
PopStackDeeperOnly(stack, levels, level) ==
    IF stack # <<>> /\ levels[stack[Len(stack)]] > level
    THEN PopStackDeeperOnly(SubSeq(stack, 1, Len(stack) - 1), levels, level)
    ELSE stack

\* while (stack.length > 0 && stack[stack.length - 1].level >= section.level)
\*     stack.pop()
RECURSIVE PopStack(_, _, _)
PopStack(stack, levels, level) ==
    IF stack # <<>> /\ levels[stack[Len(stack)]] >= level
    THEN PopStack(SubSeq(stack, 1, Len(stack) - 1), levels, level)
    ELSE stack

\* The loop of extractTableOfContents from section i on
RECURSIVE TocFrom(_, _, _, _)
TocFrom(levels, i, tree, stack) ==
    IF i > Len(levels) THEN tree
    ELSE LET popped == PopStack(stack, levels, levels[i])
             next == IF popped = <<>>
                     THEN [tree EXCEPT !.roots = Append(@, i)]
                     ELSE [tree EXCEPT !.children[popped[Len(popped)]] = Append(@, i)]
         IN TocFrom(levels, i + 1, next, Append(popped, i))

extractTableOfContents(levels) == TocFrom(levels, 1, EmptyTree(Len(levels)), <<>>)

\* The loop of buildNavigationTree from section i on
RECURSIVE NavigationFrom(_, _, _, _)
NavigationFrom(levels, i, tree, stack) ==
    IF i > Len(levels) THEN tree
    ELSE LET popped == PopStack(stack, levels, levels[i])
             next == IF Len(popped) = 0
                     THEN [tree EXCEPT !.roots = Append(@, i)]
                     ELSE [tree EXCEPT !.children[popped[Len(popped)]] = Append(@, i)]
         IN NavigationFrom(levels, i + 1, next, Append(popped, i))

buildNavigationTree(levels) == NavigationFrom(levels, 1, EmptyTree(Len(levels)), <<>>)

LevelLists == UNION {[1..n -> 1..MaxLevel] : n \in 1..MaxSections}

InitToc ==
    /\ toc \in {[levels |-> l, pc |-> "raw", server |-> <<>>, client |-> <<>>] :
                   l \in LevelLists}
    /\ phase = "new"
    /\ sections = <<>>
    /\ epoch = 0
    /\ ready = FALSE
    /\ config = DefaultConfig
    /\ configs = <<[partial |-> NoPartial, value |-> DefaultConfig]>>
    /\ rebuilds = <<>>
    /\ updates = 0
    /\ lastUpdate = 0
    /\ searches = <<>>
    /\ configUpdates = 0
    /\ log = {}
    /\ file = 1
    /\ writes = 0
    /\ events = 0
    /\ now = DebounceMs
    /\ lastChangeTime = 0
    /\ loads = 0
    /\ document = 0
    /\ watching = FALSE
    /\ puts = <<>>
    /\ requests = <<>>
    /\ markdown = NoMarkdown
    /\ dialog = NoDialog
    /\ returned = NoReturned
    /\ env = NoEnv

\* extractTableOfContents(sections) on the server
BuildServerToc ==
    /\ toc.pc = "raw"
    /\ toc' = [toc EXCEPT !.pc = "server", !.server = extractTableOfContents(toc.levels)]
    /\ UNCHANGED <<phase, searchVars>>
    /\ UNCHANGED <<file, writes, events, now, lastChangeTime, loads, document, watching,
                   puts, requests, markdown, dialog, returned, env>>

\* buildNavigationTree(sections) in the client
BuildClientTree ==
    /\ toc.pc = "server"
    /\ toc' = [toc EXCEPT !.pc = "built", !.client = buildNavigationTree(toc.levels)]
    /\ UNCHANGED <<phase, searchVars>>
    /\ UNCHANGED <<file, writes, events, now, lastChangeTime, loads, document, watching,
                   puts, requests, markdown, dialog, returned, env>>

NextToc ==
    \/ BuildServerToc
    \/ BuildClientTree

SpecToc == InitToc /\ [][NextToc]_vars

\* Pre-order walk of the trees rooted at the given positions
RECURSIVE PreOrder(_, _)
PreOrder(tree, nodes) ==
    IF nodes = <<>> THEN <<>>
    ELSE <<Head(nodes)>> \o PreOrder(tree, tree.children[Head(nodes)])
         \o PreOrder(tree, Tail(nodes))

SeqContains(xs, x) == \E k \in 1..Len(xs) : xs[k] = x

\* The positions that have i among their children
ParentsIn(tree, i) == {j \in DOMAIN tree.children : SeqContains(tree.children[j], i)}

\* The nearest preceding section of a strictly smaller level (0: none)
NearestSmaller(levels, i) ==
    LET before == {j \in 1..(i - 1) : levels[j] < levels[i]}
    IN IF before = {} THEN 0 ELSE CHOOSE j \in before : \A k \in before : k <= j

\* C21: for every list of sections with levels in 1..6 the table of contents
\* holds every section exactly once, the parent of a section is the nearest
\* preceding section of a strictly smaller level (a root if there is none),
\* a pre-order walk gives the sections in their order, and the server's and
\* the client's builder give the same tree.
C21_TocIsNearestSmallerTree ==
    toc.pc = "built" =>
        /\ PreOrder(toc.server, toc.server.roots) = [i \in 1..Len(toc.levels) |-> i]
        /\ \A i \in 1..Len(toc.levels) :
              IF NearestSmaller(toc.levels, i) = 0
              THEN SeqContains(toc.server.roots, i) /\ ParentsIn(toc.server, i) = {}
              ELSE ~SeqContains(toc.server.roots, i)
                   /\ ParentsIn(toc.server, i) = {NearestSmaller(toc.levels, i)}
        /\ toc.client = toc.server

\* C21 witness: both builders have run on a list in which a section follows
\* a deeper one and goes back to an ancestor two places before it
C21_Witness ==
    /\ toc.pc = "built"
    /\ Len(toc.levels) = 3
    /\ toc.levels[1] < toc.levels[3]
    /\ toc.levels[3] < toc.levels[2]
    /\ toc.server.children[1] = <<2, 3>>

\* ------------------------------------------------------------------------
\* Keyword candidates
\* ------------------------------------------------------------------------
\* The term occurs in the section's title or body, case-insensitively
OccursIn(term, section) ==
    Occurrences(ToLowerCase(section.title), term)
        + Occurrences(ToLowerCase(section.content), term) > 0

\* C22: keyword search of a multi-term query uses AND logic: every section
\* in the list keywordSearch produces contains every query term (of length
\* above 2) in its title or body.
C22_KeywordCandidatesMatchAllTerms ==
    \A i \in SettledSearches :
        searches[i].keywordOn =>
            \A k \in 1..Len(searches[i].keywordResults) :
                \A n \in 1..Len(QueryTerms(searches[i].query)) :
                    OccursIn(QueryTerms(searches[i].query)[n],
                             searches[i].keywordResults[k].section)

\* ------------------------------------------------------------------------
\* middleware/auth authenticateToken, in front of PUT /api/doc
\* ------------------------------------------------------------------------
UnauthorizedStatus == 401
ForbiddenStatus == 403
DevEditToken == "dev-edit-token"
DevSecretKey == "dev-secret-key"

\* A token is an opaque text or a JWT, of which the signing key and whether
\* it has expired are what jwt.verify looks at.
Opaque(text) == [kind |-> "opaque", text |-> text, key |-> "", expired |-> FALSE]
Jwt(key, expired) == [kind |-> "jwt", text |-> "", key |-> key, expired |-> expired]

\* The Authorization header: absent, or a scheme and what follows the first
\* space (authHeader.split(' ')[1]; the empty text when nothing follows)
NoHeader == [present |-> FALSE, scheme |-> "", token |-> Opaque("")]
Header(scheme, token) == [present |-> TRUE, scheme |-> scheme, token |-> token]

\* `authHeader && authHeader.split(' ')[1]` is falsy
NoToken(header) ==
    \/ ~header.present
    \/ header.token.kind = "opaque" /\ header.token.text = ""

\* jwt.verify(token, secret) returns (does not throw)
JwtVerifies(token, secret) ==
    /\ token.kind = "jwt"
    /\ token.key = secret
    /\ ~token.expired

\* authenticateToken: 401 without a token; next() for the token EDIT_TOKEN
\* names and for the literal 'dev-edit-token'; otherwise next() if the token
\* verifies as a JWT under JWT_SECRET (or 'dev-secret-key' when that is not
\* set), else 403.
authenticateToken(header) ==
    LET token == header.token
        jwtSecret == IF env.JWT_SECRET = Unset THEN DevSecretKey ELSE env.JWT_SECRET
    IN IF NoToken(header)
       THEN [next |-> FALSE, statusCode |-> UnauthorizedStatus]
       ELSE IF token.kind = "opaque"
               /\ (token.text = env.EDIT_TOKEN \/ token.text = DevEditToken)
            THEN [next |-> TRUE, statusCode |-> 0]
       ELSE IF JwtVerifies(token, jwtSecret)
            THEN [next |-> TRUE, statusCode |-> 0]
       ELSE [next |-> FALSE, statusCode |-> ForbiddenStatus]

\* PUT /api/doc with a valid body: authenticateToken, then, if it called
\* next(), the handler up to the file write of updateDocument
AuthPut(header, c) ==
    /\ phase = "serving"
    /\ Len(puts) < MaxPuts
    /\ LET auth == authenticateToken(header)
       IN IF auth.next
          THEN /\ file' = c
               /\ events' = events + 1
               /\ puts' = Append(puts, [content |-> c, pc |-> "load", header |-> header,
                                        statusCode |-> 0, nexts |-> 1, responses |-> 0])
          ELSE /\ puts' = Append(puts, [content |-> c, pc |-> "rejected", header |-> header,
                                        statusCode |-> auth.statusCode,
                                        nexts |-> 0, responses |-> 1])
               /\ UNCHANGED <<file, events>>
    /\ UNCHANGED <<phase, writes, now, lastChangeTime, loads, document, watching>>
    /\ UNCHANGED <<searchVars, requests, markdown, auxVars>>

\* Environments, tokens and headers tried
Envs == [EDIT_TOKEN : {Unset, "edit-secret"}, JWT_SECRET : {Unset, "jwt-secret"}]
Tokens == {
    Opaque(""),
    Opaque("edit-secret"),
    Opaque(DevEditToken),
    Opaque("guess"),
    Jwt("jwt-secret", FALSE),
    Jwt("jwt-secret", TRUE),
    Jwt(DevSecretKey, FALSE),
    Jwt("other-key", FALSE) }
AuthHeaders ==
    {NoHeader} \cup {Header("Bearer", tok) : tok \in Tokens}
               \cup {Header("Basic", Opaque("edit-secret"))}
AuthDocs == {d \in DocIds : d <= 2}

InitAuth ==
    /\ sections = IndexSections(getSections(1))
    /\ rebuilds = <<[doc |-> 1, origin |-> "startup", pc |-> "done",
                     startEpoch |-> 0, endEpoch |-> 1]>>
    /\ file = 1
    /\ document = 1
    /\ phase = "serving"
    /\ epoch = 1
    /\ ready = TRUE
    /\ config = DefaultConfig
    /\ updates = 0
    /\ lastUpdate = 0
    /\ searches = <<>>
    /\ configUpdates = 0
    /\ log = {}
    /\ writes = 0
    /\ events = 0
    /\ now = DebounceMs
    /\ lastChangeTime = 0
    /\ loads = 0
    /\ watching = TRUE
    /\ puts = <<>>
    /\ requests = <<>>
    /\ configs = <<[partial |-> NoPartial, value |-> config]>>
    /\ toc = NoToc
    /\ dialog = NoDialog
    /\ returned = NoReturned
    /\ env \in Envs
    /\ markdown = NoMarkdown

NextAuth ==
    \/ \E h \in AuthHeaders, c \in AuthDocs : AuthPut(h, c)
    \/ \E i \in 1..Len(puts) : PutLoad(i)
    \/ \E i \in 1..Len(puts) : PutIndex(i)
    \/ \E i \in 1..Len(rebuilds) : RebuildEmbeddingInit(i)
    \/ \E i \in 1..Len(rebuilds) : RebuildPublish(i)

SpecAuth == InitAuth /\ [][NextAuth]_vars

\* The header carries a Bearer token that is the configured EDIT_TOKEN or a
\* JWT valid under the configured JWT_SECRET
Authorised(header) ==
    /\ ~NoToken(header)
    /\ header.scheme = "Bearer"
    /\ \/ header.token.kind = "opaque" /\ header.token.text = env.EDIT_TOKEN
       \/ JwtVerifies(header.token, env.JWT_SECRET)

\* C23: a PUT /api/doc request changes the document only if it carries a
\* Bearer token equal to the configured EDIT_TOKEN or a JWT valid under
\* JWT_SECRET; with no token it is answered 401 and with any other token
\* 403, and then neither the file, the in-memory document nor the index
\* changes; authenticateToken either calls next() or sends one response.
C23_OnlyAuthorisedPutsChangeTheDocument ==
    [][Len(puts') = Len(puts) + 1 =>
          LET put == puts'[Len(puts')]
          IN /\ (put.pc # "rejected") <=> Authorised(put.header)
             /\ NoToken(put.header) => put.statusCode = UnauthorizedStatus
             /\ (~NoToken(put.header) /\ ~Authorised(put.header))
                    => put.statusCode = ForbiddenStatus
             /\ put.pc = "rejected"
                    => /\ file' = file
                       /\ document' = document
                       /\ sections' = sections
                       /\ rebuilds' = rebuilds
             /\ put.nexts + put.responses = 1]_vars

\* The request the divergence of C23 is shown with: EDIT_TOKEN and
\* JWT_SECRET configured, and a put admitted with the token 'dev-edit-token'
DevTokenAdmitted ==
    \E i \in 1..Len(puts) :
        /\ env.EDIT_TOKEN # Unset
        /\ env.JWT_SECRET # Unset
        /\ puts[i].header = Header("Bearer", Opaque(DevEditToken))
        /\ puts[i].pc = "done"
        /\ document = puts[i].content

\* ------------------------------------------------------------------------
\* SearchService.getConfig and updateConfig, with a caller that changes the
\* object getConfig gave it
\* ------------------------------------------------------------------------
\* Mutant of getConfig: this.config itself is returned.
getConfigSameObject == [pc |-> "held", alias |-> TRUE, value |-> config, at |-> Len(configs)]

\* getConfig(): { ...this.config }, a new object with the fields of
\* this.config; alias tells whether the object is this.config itself.
getConfig == [pc |-> "held", alias |-> FALSE, value |-> config, at |-> Len(configs)]

GetConfig ==
    /\ phase = "serving"
    /\ returned' = getConfig
    /\ UNCHANGED <<phase, searchVars>>
    /\ UNCHANGED <<file, writes, events, now, lastChangeTime, loads, document, watching,
                   puts, requests, markdown, toc, dialog, env>>

\* Assignments a caller makes to a field of the object it holds
CallerAssignments == {<<"maxResults", 1>>, <<"enableKeywordSearch", FALSE>>}

\* The caller assigns to a field of the object getConfig returned.
CallerAssigns(field, value) ==
    /\ phase = "serving"
    /\ returned.pc = "held"
    /\ returned.value[field] # value
    /\ returned' = [returned EXCEPT !.value[field] = value]
    /\ config' = IF returned.alias THEN [config EXCEPT ![field] = value] ELSE config
    /\ UNCHANGED <<phase, sections, epoch, ready, configs, rebuilds, updates, lastUpdate,
                   searches, configUpdates, log>>
    /\ UNCHANGED <<file, writes, events, now, lastChangeTime, loads, document, watching,
                   puts, requests, markdown, toc, dialog, env>>

ConfigDoc == NDocs - 1
ConfigQueries == {q \in Queries : Len(q) = 4}
ConfigMaxResultsArgs == {0, 2}

InitConfig ==
    /\ sections = IndexSections(getSections(ConfigDoc))
    /\ rebuilds = <<[doc |-> ConfigDoc, origin |-> "startup", pc |-> "done",
                     startEpoch |-> 0, endEpoch |-> 1]>>
    /\ file = ConfigDoc
    /\ document = ConfigDoc
    /\ phase = "serving"
    /\ epoch = 1
    /\ ready = TRUE
    /\ config = DefaultConfig
    /\ updates = 0
    /\ lastUpdate = 0
    /\ searches = <<>>
    /\ configUpdates = 0
    /\ log = {}
    /\ writes = 0
    /\ events = 0
    /\ now = DebounceMs
    /\ lastChangeTime = 0
    /\ loads = 0
    /\ watching = TRUE
    /\ puts = <<>>
    /\ requests = <<>>
    /\ configs = <<[partial |-> NoPartial, value |-> config]>>
    /\ toc = NoToc
    /\ dialog = NoDialog
    /\ returned = NoReturned
    /\ env = NoEnv
    /\ markdown = NoMarkdown

ConfigPartials == {
    [minScore |-> 0, enableKeywordSearch |-> FALSE],
    [minScore |-> 500, maxResults |-> 2],
    [enableSemanticSearch |-> FALSE] }

NextConfig ==
    \/ \E p \in ConfigPartials : UpdateConfig(p)
    \/ GetConfig
    \/ \E a \in CallerAssignments : CallerAssigns(a[1], a[2])
    \/ \E q \in ConfigQueries, mr \in ConfigMaxResultsArgs : SearchStart(q, mr)
    \/ \E i \in 1..Len(searches) : SearchSemantic(i)
    \/ \E i \in 1..Len(searches) : SearchFinish(i)

SpecConfig == InitConfig /\ [][NextConfig]_vars

\* The value of this.config after the k-th entry of configs: every field the
\* argument names has the argument's value, every other field the value it
\* had before
ExactlyNamedFields(k) ==
    \A f \in ConfigFields :
        configs[k].value[f] = IF f \in DOMAIN configs[k].partial
                              THEN configs[k].partial[f]
                              ELSE configs[k - 1].value[f]

\* C24: updateConfig(partial) changes exactly the fields partial names;
\* getConfig() returns the current values, and assignments to the object it
\* returned do not reach the service's configuration, which changes through
\* updateConfig only; a search started after an updateConfig uses the
\* updated values.
C24_ConfigChangesThroughUpdateConfigOnly ==
    /\ \A k \in 2..Len(configs) : ExactlyNamedFields(k)
    /\ config = configs[Len(configs)].value
    /\ Len(configs) = configUpdates + 1
    /\ returned.pc = "held" =>
          \A f \in ConfigFields :
              returned.value[f] = configs[returned.at].value[f]
                  \/ \E a \in CallerAssignments : a[1] = f /\ a[2] = returned.value[f]
    /\ \A i \in 1..Len(searches) :
          LET s == searches[i]
              atStart == configs[s.cfgStart].value
          IN /\ s.limit = IF s.maxResults # 0 THEN s.maxResults ELSE atStart.maxResults
             /\ s.semanticOn = atStart.enableSemanticSearch
             /\ (Settled(s) /\ s.cfgStart = Len(configs)) =>
                   /\ s.keywordOn = atStart.enableKeywordSearch
                   /\ Done(s) =>
                         \A k \in 1..Len(s.response.results) :
                             s.response.results[k].score >= atStart.minScore

\* C24 witness: after updateConfig the caller has changed a field of the
\* object getConfig returned, the configuration still has the updated
\* values, and a search started after the update has returned
C24_Witness ==
    /\ Len(configs) = 2
    /\ returned.pc = "held"
    /\ returned.at = 2
    /\ returned.value # config
    /\ \E i \in FinishedSearches :
          /\ searches[i].cfgStart = 2
          /\ searches[i].limit # DefaultMaxResults
          /\ searches[i].response.results # <<>>

\* ------------------------------------------------------------------------
\* Specification of searches for terms that hold pattern characters
\* ------------------------------------------------------------------------
PatternQueries == {
    <<"l", "o", "g", "o">>,
    <<"l", ".", "g", "o">>,
    <<"(", "l", "o", "g", "o">> }
PatternMaxResultsArgs == {0, 1}
PatternConfigs == {DefaultConfig,
                   Spread(DefaultConfig, [enableSemanticSearch |-> FALSE]),
                   Spread(DefaultConfig, [minScore |-> 0, enableKeywordSearch |-> FALSE])}

InitPattern ==
    /\ \E d \in DocIds :
          /\ sections = IndexSections(getSections(d))
          /\ rebuilds = <<[doc |-> d, origin |-> "startup", pc |-> "done",
                           startEpoch |-> 0, endEpoch |-> 1]>>
          /\ file = d
          /\ document = d
    /\ phase = "serving"
    /\ epoch = 1
    /\ ready = TRUE
    /\ config \in PatternConfigs
    /\ updates = 0
    /\ lastUpdate = 0
    /\ searches = <<>>
    /\ configUpdates = 0
    /\ log = {}
    /\ writes = 0
    /\ events = 0
    /\ now = DebounceMs
    /\ lastChangeTime = 0
    /\ loads = 0
    /\ watching = TRUE
    /\ puts = <<>>
    /\ requests = <<>>
    /\ configs = <<[partial |-> NoPartial, value |-> config]>>
    /\ toc = NoToc
    /\ dialog = NoDialog
    /\ returned = NoReturned
    /\ env = NoEnv
    /\ markdown = NoMarkdown

NextPattern ==
    \/ \E q \in PatternQueries, mr \in PatternMaxResultsArgs : SearchStart(q, mr)
    \/ \E i \in 1..Len(searches) : SearchSemantic(i)
    \/ \E i \in 1..Len(searches) : SearchFinish(i)

SpecPattern == InitPattern /\ [][NextPattern]_vars

\* The pieces of text a result reports as matches are the query's terms,
\* letter for letter (in either case)
LiteralMatches(query, result) ==
    \A m \in 1..Len(result.matches) :
        \E n \in 1..Len(QueryTerms(query)) :
            ToLowerCase(result.matches[m]) = QueryTerms(query)[n]

\* C25: query terms are matched literally: for every query that passes the
\* input validation, terms with pattern characters included, search
\* returns a result and does not throw, and a term matches a section only
\* where the section has it character for character.
C25_TermsMatchedLiterally ==
    \A i \in SettledSearches :
        /\ Done(searches[i])
        /\ \A k \in 1..Len(searches[i].response.results) :
               LiteralMatches(searches[i].query, searches[i].response.results[k])
        /\ \A k \in 1..Len(searches[i].keywordResults) :
               \E n \in 1..Len(QueryTerms(searches[i].query)) :
                   Occurrences(ToLowerCase(searches[i].keywordResults[k].section.title)
                                   \o <<"\n">>
                                   \o ToLowerCase(searches[i].keywordResults[k].section.content),
                               QueryTerms(searches[i].query)[n]) > 0

\* Two states the divergence of C25 is shown with: a search that threw the
\* SyntaxError of an unclosed '(', and a search that returned a section with
\* the piece 'logo' reported as a match of the term 'l.go'
PatternRejected ==
    \E i \in SettledSearches : searches[i].error = "SyntaxError"

WildcardMatched ==
    \E i \in FinishedSearches :
        /\ searches[i].query = <<"l", ".", "g", "o">>
        /\ \E k \in 1..Len(searches[i].response.results) :
               ~LiteralMatches(searches[i].query, searches[i].response.results[k])

\* ------------------------------------------------------------------------
\* Line ranges of sections
\* ------------------------------------------------------------------------
\* Numbers (from 0) of the heading lines of a text
HeadingLines(text) ==
    {n \in 0..(Len(SplitLines(text)) - 1) : HeadingMatch(SplitLines(text)[n + 1]).level > 0}

\* Sections whose range holds the line
SectionsAt(secs, lineNumber) ==
    {k \in 1..Len(secs) : secs[k].startLine <= lineNumber /\ lineNumber <= secs[k].endLine}

\* C26: the sections extractSections returns have ordered, contiguous line
\* ranges: each starts at its heading line, startLine <= endLine, each ends
\* on the line before the next section's heading and the last one on the
\* last line; so findSectionByLineNumber finds exactly one section for every
\* line from the first heading on, and none before it.
C26_LineRangesOrderedAndContiguous ==
    markdown.pc \in {"extracted", "generated"} =>
        LET secs == markdown.sections
            lines == SplitLines(markdown.content)
        IN /\ {secs[k].startLine : k \in 1..Len(secs)} = HeadingLines(markdown.content)
           /\ \A k \in 1..Len(secs) :
                 /\ secs[k].startLine <= secs[k].endLine
                 /\ k < Len(secs) => secs[k].endLine = secs[k + 1].startLine - 1
                 /\ k = Len(secs) => secs[k].endLine = Len(lines) - 1
           /\ (markdown.line >= 0 /\ markdown.line < Len(lines)) =>
                 IF secs # <<>> /\ markdown.line >= secs[1].startLine
                 THEN /\ markdown.found # 0
                      /\ SectionsAt(secs, markdown.line) = {markdown.found}
                 ELSE markdown.found = 0
           /\ markdown.line >= Len(lines) => markdown.found = 0

\* C26 witness: in a text that has a line before its first heading and two
\* sections, the heading line of the second section has been looked up and
\* the second section found
C26_Witness ==
    /\ markdown.pc \in {"extracted", "generated"}
    /\ Len(markdown.sections) = 2
    /\ markdown.sections[1].startLine = 1
    /\ markdown.line = markdown.sections[2].startLine
    /\ markdown.found = 2

UsesVersion(s, v) ==
    LET c == configs[v].value
    IN /\ s.limit = Limit(s.maxResults, c)
       /\ s.semanticOn = c.enableSemanticSearch
       /\ s.keywordOn = c.enableKeywordSearch
       /\ s.cfgSem # 0 => configs[s.cfgSem].value.minScore = c.minScore

\* C29: a single search uses one consistent configuration: when updateConfig
\* is called while the search is in flight, the enable flags, minScore and
\* the default maxResults the search uses are all the values from before the
\* update or all the values from after it.
C29_OneConfigurationPerSearch ==
    \A i \in SettledSearches :
        \E v \in 1..Len(configs) : UsesVersion(searches[i], v)

\* ------------------------------------------------------------------------
\* SearchInterface (client): the search dialog with its debounced search
\* ------------------------------------------------------------------------
MaxTyped == 3         \* changes of the input per run

\* What the user types into the input
DialogQueries == {<<>>, <<"l", "o">>, <<"l", "o", "g", "o">>}

\* The results state: [] (shown for no query) or the results of a response
NoResults == [for |-> <<>>, any |-> FALSE]
ResultsOf(q) == [for |-> q, any |-> TRUE]

\* The dialog as it is mounted: empty input, and the effect of the first
\* render has set its timer
InitDialog ==
    /\ dialog = [pc |-> "open", query |-> <<>>, timer |-> TRUE, typed |-> 0,
                 sent |-> <<>>, results |-> NoResults, error |-> FALSE,
                 loading |-> FALSE]
    /\ phase = "new"
    /\ sections = <<>>
    /\ epoch = 0
    /\ ready = FALSE
    /\ config = DefaultConfig
    /\ rebuilds = <<>>
    /\ updates = 0
    /\ lastUpdate = 0
    /\ searches = <<>>
    /\ configUpdates = 0
    /\ log = {}
    /\ file = 1
    /\ writes = 0
    /\ events = 0
    /\ now = DebounceMs
    /\ lastChangeTime = 0
    /\ loads = 0
    /\ document = 0
    /\ watching = FALSE
    /\ puts = <<>>
    /\ requests = <<>>
    /\ configs = <<[partial |-> NoPartial, value |-> config]>>
    /\ toc = NoToc
    /\ returned = NoReturned
    /\ env = NoEnv
    /\ markdown = NoMarkdown

\* The input changes: the effect's cleanup clears the timer of the previous
\* query and the effect sets one for the new query.
Type(q) ==
    /\ dialog.pc = "open"
    /\ dialog.typed < MaxTyped
    /\ q # dialog.query
    /\ dialog' = [dialog EXCEPT !.query = q, !.timer = TRUE, !.typed = @ + 1]
    /\ UNCHANGED <<phase, searchVars>>
    /\ UNCHANGED <<file, writes, events, now, lastChangeTime, loads, document, watching,
                   puts, requests, markdown, toc, returned, env>>

\* handleSearch(query) up to its await: an empty query empties the results;
\* otherwise the request is sent.
HandleSearch(d) ==
    IF Trim(d.query) = <<>>
    THEN [d EXCEPT !.timer = FALSE, !.results = NoResults, !.error = FALSE]
    ELSE [d EXCEPT !.timer = FALSE, !.loading = TRUE, !.error = FALSE,
                   !.sent = Append(@, [query |-> d.query, pc |-> "pending"])]

\* The timer runs out, 300 ms after the last change of the input.
TimerFires ==
    /\ dialog.pc = "open"
    /\ dialog.timer
    /\ dialog' = HandleSearch(dialog)
    /\ UNCHANGED <<phase, searchVars>>
    /\ UNCHANGED <<file, writes, events, now, lastChangeTime, loads, document, watching,
                   puts, requests, markdown, toc, returned, env>>

\* handleSearch after its await, the request answered: setResults
ResponseArrives(k) ==
    /\ dialog.pc = "open"
    /\ k \in 1..Len(dialog.sent)
    /\ dialog.sent[k].pc = "pending"
    /\ dialog' = [dialog EXCEPT !.sent[k].pc = "answered",
                                !.results = ResultsOf(dialog.sent[k].query),
                                !.loading = FALSE]
    /\ UNCHANGED <<phase, searchVars>>
    /\ UNCHANGED <<file, writes, events, now, lastChangeTime, loads, document, watching,
                   puts, requests, markdown, toc, returned, env>>

\* handleSearch after its await, the request failed: setError, setResults([])
RequestFails(k) ==
    /\ dialog.pc = "open"
    /\ k \in 1..Len(dialog.sent)
    /\ dialog.sent[k].pc = "pending"
    /\ dialog' = [dialog EXCEPT !.sent[k].pc = "failed",
                                !.results = NoResults,
                                !.error = TRUE,
                                !.loading = FALSE]
    /\ UNCHANGED <<phase, searchVars>>
    /\ UNCHANGED <<file, writes, events, now, lastChangeTime, loads, document, watching,
                   puts, requests, markdown, toc, returned, env>>

NextDialog ==
    \/ \E q \in DialogQueries : Type(q)
    \/ TimerFires
    \/ \E k \in 1..Len(dialog.sent) : ResponseArrives(k)
    \/ \E k \in 1..Len(dialog.sent) : RequestFails(k)

SpecDialog == InitDialog /\ [][NextDialog]_vars

\* No timer is set and no request is awaited
DialogQuiet ==
    /\ dialog.pc = "open"
    /\ ~dialog.timer
    /\ \A k \in 1..Len(dialog.sent) : dialog.sent[k].pc # "pending"

\* C30: once all outstanding requests have answered, the results shown are
\* those of the most recently typed query: a response to an earlier query
\* never replaces the results of a later one, and with the input cleared no
\* results are shown.
C30_ResultsOfLatestQuery ==
    DialogQuiet =>
        /\ dialog.results.any => dialog.results.for = dialog.query
        /\ Trim(dialog.query) = <<>> => dialog.results = NoResults

====
